---- MODULE Spec2Model ----
(***************************************************************************)
(* The attendance server of absensiqr-siswa: the tRPC handlers over the    *)
(* users, students, class_schedules and attendance_records tables, and the *)
(* token pair login / validateToken.                                       *)
(*                                                                         *)
(* A nullable column or field is <<>> for null and <<v>> for the value v.  *)
(* An instant (a JavaScript Date, or Date.now()) is its number of          *)
(* milliseconds since the epoch.                                           *)
(***************************************************************************)
EXTENDS Integers, Sequences, FiniteSets, TLC

VARIABLES
    now,                     \* the server's clock, Date.now()
    usersTable,              \* rows of table users
    studentsTable,           \* rows of table students
    teachersTable,           \* rows of table teachers
    classSchedulesTable,     \* rows of table class_schedules
    attendanceRecordsTable,  \* rows of table attendance_records (the ledger)
    serial,                  \* the serial sequence behind each table's id
    last,                    \* the latest call: its handler, input, instant, outcome
    log,                     \* the attendance calls answered so far today, oldest first
    tokens,                  \* the tokens login has handed to clients, each with
                             \* the user and the instant of its issuance
    scanner                  \* the QRScanner component: its state hooks and the
                             \* scan requests it is waiting for

vars == <<now, usersTable, studentsTable, teachersTable, classSchedulesTable,
          attendanceRecordsTable, serial, last, log, tokens, scanner>>

(***************************************************************************)
(* Bounds of the model.                                                    *)
(***************************************************************************)
MaxMinute == 2      \* the clock's minute of the day goes up to this
MaxDay == 1         \* the clock's calendar day goes up to this
MaxSerial == 2      \* ids handed out per table
MaxCalls == 3       \* attendance calls answered per day
MaxTokens == 2      \* tokens clients hold

MsPerMinute == 60 * 1000
MsPerDay == 24 * 60 * 60 * 1000

Null == <<>>
Some(v) == <<v>>

Ok(v) == [ok |-> TRUE, error |-> "", value |-> v]
Err(msg) == [ok |-> FALSE, error |-> msg, value |-> Null]

\* The calendar day and the minute of the day of an instant.
DateOf(t) == t \div MsPerDay
MinuteOfDay(t) == (t % MsPerDay) \div MsPerMinute

(***************************************************************************)
(* Inputs.                                                                 *)
(***************************************************************************)
Nisns == {"1001", "1002"}
Classes == {"7A", "7B"}
Callers == {1}         \* user ids of the teachers at the scanners (recorded_by)
UnknownQr == <<"QR", "0000", 0>>
\* HH:MM texts, one character per element, as createClassScheduleInputSchema
\* admits them
CheckInTimes == {<<"0", "0", ":", "0", "0">>}
MinCheckoutTimes == {<<"0", "0", ":", "0", "2">>}
Tolerances == {0, 1}
ManualStatuses == {"sick"}

(***************************************************************************)
(* students                                                                *)
(***************************************************************************)
\* A code made of the instant alone.
generateQrCodeOfInstant(nisn, t) == <<"QR", "", t>>

\* `QR_${nisn}_${Date.now()}`
generateQrCode(nisn, t) == <<"QR", nisn, t>>

getStudentByQrCode(qrCode) ==
    LET results == {s \in studentsTable : s.qr_code = qrCode}
    IN  IF results # {} THEN Some(CHOOSE s \in results : TRUE) ELSE Null

\* A unique constraint that never rejects.
uniqueViolationNever(students, row) == FALSE

\* nisn and qr_code are unique: an insert or update that would leave two rows
\* with the same value in either column is rejected.
uniqueViolation(students, row) ==
    \E s \in students :
       s.id # row.id /\ (s.nisn = row.nisn \/ s.qr_code = row.qr_code)

\* createStudent on a students table whose sequence stands at nextval, at
\* instant t: the outcome, the table and the sequence afterwards.  An insert
\* draws an id from the sequence also when a constraint rejects it.
createStudentIn(students, nextval, input, t) ==
    IF \E s \in students : s.nisn = input.nisn
      THEN [out |-> Err("Student with this NISN already exists"),
            students |-> students, nextval |-> nextval]
    ELSE IF input.user_id # Null /\ input.user_id[1] # 0
            /\ ~ \E u \in usersTable : u.id = input.user_id[1]
      THEN [out |-> Err("Referenced user does not exist"),
            students |-> students, nextval |-> nextval]
    ELSE LET row == [id |-> nextval + 1, nisn |-> input.nisn,
                     name |-> input.name, class |-> input.class,
                     qr_code |-> generateQrCode(input.nisn, t),
                     user_id |-> input.user_id, is_active |-> TRUE,
                     created_at |-> t, updated_at |-> t]
         IN  IF uniqueViolation(students, row)
               THEN [out |-> Err("duplicate key value violates unique constraint"),
                     students |-> students, nextval |-> nextval + 1]
               ELSE [out |-> Ok(row), students |-> students \cup {row},
                     nextval |-> nextval + 1]

createStudent(input) ==
    LET r == createStudentIn(studentsTable, serial.students, input, now)
    IN  /\ studentsTable' = r.students
        /\ serial' = [serial EXCEPT !.students = r.nextval]
        /\ last' = [op |-> "createStudent", input |-> input, at |-> now,
                    out |-> r.out]

CreateStudent ==
    /\ serial.students < MaxSerial
    /\ \E n \in Nisns, c \in Classes, u \in {Null, Some(1)} :
          createStudent([nisn |-> n, name |-> "Siswa", class |-> c, user_id |-> u])
    /\ UNCHANGED <<now, usersTable, teachersTable, classSchedulesTable, attendanceRecordsTable, log,
                   tokens, scanner>>

\* An optional field of an update is Null when left out and Some(v) when given.
updateStudent(input) ==
    LET existingStudent == {s \in studentsTable : s.id = input.id}
        old == CHOOSE s \in existingStudent : TRUE
        nisnChanges == input.nisn # Null /\ input.nisn[1] # old.nisn
        nisnExists == {s \in studentsTable :
                         s.nisn = input.nisn[1] /\ s.id = input.id}
        withNisn == IF input.nisn = Null THEN old
                    ELSE IF input.nisn[1] # old.nisn
                      THEN [old EXCEPT !.nisn = input.nisn[1],
                                       !.qr_code = generateQrCode(input.nisn[1], now)]
                      ELSE [old EXCEPT !.nisn = input.nisn[1]]
        withName == IF input.name = Null THEN withNisn
                    ELSE [withNisn EXCEPT !.name = input.name[1]]
        withClass == IF input.class = Null THEN withName
                     ELSE [withName EXCEPT !.class = input.class[1]]
        withUser == IF input.user_id = Null THEN withClass
                    ELSE [withClass EXCEPT !.user_id = input.user_id[1]]
        withActive == IF input.is_active = Null THEN withUser
                      ELSE [withUser EXCEPT !.is_active = input.is_active[1]]
        row == [withActive EXCEPT !.updated_at = now]
        answer(out) == [op |-> "updateStudent", input |-> input, at |-> now,
                        out |-> out]
    IN  IF existingStudent = {}
          THEN /\ last' = answer(Err("Student not found"))
               /\ UNCHANGED studentsTable
        ELSE IF nisnChanges /\ nisnExists # {}
          THEN /\ last' = answer(Err("Student with this NISN already exists"))
               /\ UNCHANGED studentsTable
        ELSE IF input.user_id # Null /\ input.user_id[1] # Null
                /\ ~ \E u \in usersTable : u.id = input.user_id[1][1]
          THEN /\ last' = answer(Err("Referenced user does not exist"))
               /\ UNCHANGED studentsTable
        ELSE IF uniqueViolation(studentsTable, row)
          THEN /\ last' = answer(Err("duplicate key value violates unique constraint"))
               /\ UNCHANGED studentsTable
        ELSE /\ studentsTable' = (studentsTable \ existingStudent) \cup {row}
             /\ last' = answer(Ok(row))

UpdateStudent ==
    /\ \E id \in 1..(serial.students + 1),
          n \in {Null} \cup {Some(x) : x \in Nisns},
          c \in {Null, Some("7B")},
          a \in {Null, Some(TRUE)} :
          updateStudent([id |-> id, nisn |-> n, name |-> Null, class |-> c,
                         user_id |-> Null, is_active |-> a])
    /\ UNCHANGED <<now, usersTable, teachersTable, classSchedulesTable, attendanceRecordsTable,
                   serial, log, tokens, scanner>>

\* The rows of an uploaded file: a student of either NISN, or a row whose
\* nisn is missing.
CsvRows ==
    {[nisn |-> n, name |-> "Siswa", class |-> "7A", user_id |-> Null]
     : n \in Nisns \cup {""}}
\* Files of as many rows as the students sequence has ids left at most.
CsvFiles == UNION {[1..k -> CsvRows] : k \in 1..MaxSerial}

\* A failure recorded under the index of the row, counted from 0.
recordFailureZeroBased(result, i, reason) ==
    [result EXCEPT !.failed = @ + 1,
                   !.errors = Append(@, [row |-> i - 1, reason |-> reason])]

\* result.failed++ and result.errors.push({row: rowNumber, reason}) for the
\* row at position i of the file, counted from 1 (rowNumber = i + 1 in the
\* code, whose i counts from 0).
recordFailure(result, i, reason) ==
    [result EXCEPT !.failed = @ + 1,
                   !.errors = Append(@, [row |-> i, reason |-> reason])]

\* The loop of importStudentsFromCsv from row i on.
RECURSIVE importRows(_, _, _, _, _)
importRows(csvData, i, students, nextval, result) ==
    IF i > Len(csvData)
      THEN [students |-> students, nextval |-> nextval, result |-> result]
      ELSE LET row == csvData[i]
               failed(reason) == recordFailure(result, i, reason)
           IN  IF row.nisn = "" \/ row.name = "" \/ row.class = ""
                 THEN importRows(csvData, i + 1, students, nextval,
                                 failed("Missing required fields (nisn, name, class)"))
               ELSE IF \E s \in students : s.nisn = row.nisn
                 THEN importRows(csvData, i + 1, students, nextval,
                                 failed("Student with this NISN already exists"))
               ELSE LET r == createStudentIn(students, nextval,
                                   [nisn |-> row.nisn, name |-> row.name,
                                    class |-> row.class,
                                    user_id |-> IF row.user_id # Null /\ row.user_id[1] # 0
                                                  THEN row.user_id ELSE Null],
                                   now)
                    IN  IF r.out.ok
                          THEN importRows(csvData, i + 1, r.students, r.nextval,
                                          [result EXCEPT !.success = @ + 1])
                          ELSE importRows(csvData, i + 1, r.students, r.nextval,
                                          failed(r.out.error))

importStudentsFromCsv(csvData) ==
    LET r == importRows(csvData, 1, studentsTable, serial.students,
                        [total |-> Len(csvData), success |-> 0, failed |-> 0,
                         errors |-> <<>>])
    IN  /\ studentsTable' = r.students
        /\ serial' = [serial EXCEPT !.students = r.nextval]
        /\ last' = [op |-> "importStudentsFromCsv", input |-> csvData, at |-> now,
                    out |-> Ok(r.result)]

ImportStudentsFromCsv ==
    /\ \E csvData \in CsvFiles :
          /\ importRows(csvData, 1, studentsTable, serial.students,
                        [total |-> 0, success |-> 0, failed |-> 0,
                         errors |-> <<>>]).nextval <= MaxSerial
          /\ importStudentsFromCsv(csvData)
    /\ UNCHANGED <<now, usersTable, teachersTable, classSchedulesTable, attendanceRecordsTable,
                   log, tokens, scanner>>

deleteStudent(id) ==
    IF ~ \E s \in studentsTable : s.id = id
      THEN /\ last' = [op |-> "deleteStudent", input |-> id, at |-> now,
                       out |-> Ok(FALSE)]
           /\ UNCHANGED studentsTable
      ELSE /\ studentsTable' =
                 {IF s.id = id
                    THEN [s EXCEPT !.is_active = FALSE, !.updated_at = now]
                    ELSE s : s \in studentsTable}
           /\ last' = [op |-> "deleteStudent", input |-> id, at |-> now,
                       out |-> Ok(TRUE)]

DeleteStudent ==
    /\ \E id \in 1..(serial.students + 1) : deleteStudent(id)
    /\ UNCHANGED <<now, usersTable, teachersTable, classSchedulesTable, attendanceRecordsTable,
                   serial, log, tokens, scanner>>

(***************************************************************************)
(* class schedules                                                         *)
(***************************************************************************)
\* class_name is unique: the insert draws an id from the sequence and is then
\* rejected by the constraint.
createClassSchedule(input) ==
    /\ serial' = [serial EXCEPT !.class_schedules = @ + 1]
    /\ IF \E r \in classSchedulesTable : r.class_name = input.class_name
         THEN /\ last' = [op |-> "createClassSchedule", input |-> input, at |-> now,
                          out |-> Err("duplicate key value violates unique constraint")]
              /\ UNCHANGED classSchedulesTable
         ELSE LET row == [id |-> serial.class_schedules + 1,
                          class_name |-> input.class_name,
                          check_in_time |-> input.check_in_time,
                          late_tolerance_minutes |-> input.late_tolerance_minutes,
                          min_checkout_time |-> input.min_checkout_time,
                          is_active |-> TRUE,
                          created_at |-> now, updated_at |-> now]
              IN  /\ classSchedulesTable' = classSchedulesTable \cup {row}
                  /\ last' = [op |-> "createClassSchedule", input |-> input,
                              at |-> now, out |-> Ok(row)]

CreateClassSchedule ==
    /\ serial.class_schedules < MaxSerial
    /\ \E c \in Classes, d \in CheckInTimes, t \in Tolerances, m \in MinCheckoutTimes :
          createClassSchedule([class_name |-> c, check_in_time |-> d,
                               late_tolerance_minutes |-> t, min_checkout_time |-> m])
    /\ UNCHANGED <<now, usersTable, studentsTable, teachersTable, attendanceRecordsTable, log, tokens, scanner>>

\* A deletion that takes the row out of the table.
deleteClassScheduleRemovingRow(id) ==
    LET result == {r \in classSchedulesTable : r.id = id}
    IN  /\ classSchedulesTable' = classSchedulesTable \ result
        /\ last' = [op |-> "deleteClassSchedule", input |-> id, at |-> now,
                    out |-> Ok(result # {})]

\* update ... set is_active = false, updated_at = now where id = ... returning:
\* the rows the update touched decide the answer.
deleteClassSchedule(id) ==
    LET result == {[r EXCEPT !.is_active = FALSE, !.updated_at = now]
                   : r \in {x \in classSchedulesTable : x.id = id}}
    IN  /\ classSchedulesTable' =
              {x \in classSchedulesTable : x.id # id} \cup result
        /\ last' = [op |-> "deleteClassSchedule", input |-> id, at |-> now,
                    out |-> Ok(Cardinality(result) > 0)]

DeleteClassSchedule ==
    /\ \E id \in 1..(serial.class_schedules + 1) : deleteClassSchedule(id)
    /\ UNCHANGED <<now, usersTable, studentsTable, teachersTable, attendanceRecordsTable,
                   serial, log, tokens, scanner>>

(***************************************************************************)
(* teachers                                                                *)
(***************************************************************************)
\* parseInt of a decimal text: blanks, a sign, then the digits up to the first
\* character that is none; Null stands for NaN.
RECURSIVE digitsValue(_, _, _)
digitsValue(text, i, acc) ==
    IF i > Len(text) \/ text[i] < 48 \/ text[i] > 57 THEN acc
    ELSE digitsValue(text, i + 1, acc * 10 + (text[i] - 48))

RECURSIVE firstNonBlank(_, _)
firstNonBlank(text, i) ==
    IF i <= Len(text) /\ text[i] \in {9, 10, 13, 32} THEN firstNonBlank(text, i + 1)
    ELSE i

parseInt(text) ==
    LET b == firstNonBlank(text, 1)
        signed == b <= Len(text) /\ text[b] \in {43, 45}
        d == IF signed THEN b + 1 ELSE b
    IN  IF d > Len(text) \/ text[d] < 48 \/ text[d] > 57 THEN Null
        ELSE IF signed /\ text[b] = 45 THEN Some(0 - digitsValue(text, d, 0))
        ELSE Some(digitsValue(text, d, 0))

\* The rows of an uploaded file of teachers: T01 without a user, T01 of the
\* user x, T02 of the user 1, T02 of the user 9, and a row without teacher_id.
TeacherCsvRows ==
    {[teacher_id |-> r[1], name |-> "Guru", homeroom_class |-> "", user_id |-> r[2]]
     : r \in {<<"T01", <<>>>>, <<"T01", <<120>>>>, <<"T02", <<49>>>>,
              <<"T02", <<57>>>>, <<"", <<>>>>}}
TeacherCsvFiles == UNION {[1..k -> TeacherCsvRows] : k \in 1..MaxSerial}

\* The loop of importTeachersFromCsv from row i on.  teacher_id is unique: an
\* insert the constraint rejects still draws an id from the sequence.
RECURSIVE importTeacherRows(_, _, _, _, _)
importTeacherRows(csvData, i, teachers, nextval, result) ==
    IF i > Len(csvData)
      THEN [teachers |-> teachers, nextval |-> nextval, result |-> result]
      ELSE LET row == csvData[i]
               given == row.user_id # <<>>
               userIdNum == parseInt(row.user_id)
               new == [id |-> nextval + 1, teacher_id |-> row.teacher_id,
                       name |-> row.name,
                       homeroom_class |-> IF row.homeroom_class = "" THEN Null
                                          ELSE Some(row.homeroom_class),
                       user_id |-> IF given THEN userIdNum ELSE Null,
                       is_active |-> TRUE, created_at |-> now, updated_at |-> now]
               skip(reason) ==
                   importTeacherRows(csvData, i + 1, teachers, nextval,
                                     recordFailure(result, i, reason))
           IN  IF row.teacher_id = "" \/ row.name = ""
                 THEN skip("Missing required fields: teacher_id and name are required")
               ELSE IF \E r \in teachers : r.teacher_id = row.teacher_id
                 THEN skip(<<"Teacher ID ", row.teacher_id, " already exists">>)
               ELSE IF given /\ userIdNum = Null
                 THEN skip("Invalid user_id: must be a number")
               ELSE IF given /\ ~ \E u \in usersTable : u.id = userIdNum[1]
                 THEN skip(<<"User with ID ", userIdNum[1], " does not exist">>)
               ELSE IF \E r \in teachers : r.teacher_id = new.teacher_id
                 THEN importTeacherRows(csvData, i + 1, teachers, nextval + 1,
                                        recordFailure(result, i, "Database error"))
               ELSE importTeacherRows(csvData, i + 1, teachers \cup {new}, nextval + 1,
                                      [result EXCEPT !.success = @ + 1])

importTeachersFromCsv(csvData) ==
    LET r == importTeacherRows(csvData, 1, teachersTable, serial.teachers,
                               [total |-> Len(csvData), success |-> 0, failed |-> 0,
                                errors |-> <<>>])
    IN  /\ teachersTable' = r.teachers
        /\ serial' = [serial EXCEPT !.teachers = r.nextval]
        /\ last' = [op |-> "importTeachersFromCsv", input |-> csvData, at |-> now,
                    out |-> Ok(r.result)]

ImportTeachersFromCsv ==
    /\ \E csvData \in TeacherCsvFiles :
          /\ importTeacherRows(csvData, 1, teachersTable, serial.teachers,
                               [total |-> 0, success |-> 0, failed |-> 0,
                                errors |-> <<>>]).nextval <= MaxSerial
          /\ importTeachersFromCsv(csvData)
    /\ UNCHANGED <<now, usersTable, studentsTable, classSchedulesTable,
                   attendanceRecordsTable, log, tokens, scanner>>

deleteTeacher(id) ==
    IF ~ \E r \in teachersTable : r.id = id
      THEN /\ last' = [op |-> "deleteTeacher", input |-> id, at |-> now,
                       out |-> Ok(FALSE)]
           /\ UNCHANGED teachersTable
      ELSE /\ teachersTable' =
                 {IF r.id = id
                    THEN [r EXCEPT !.is_active = FALSE, !.updated_at = now]
                    ELSE r : r \in teachersTable}
           /\ last' = [op |-> "deleteTeacher", input |-> id, at |-> now,
                       out |-> Ok(TRUE)]

DeleteTeacher ==
    /\ \E id \in 1..(serial.teachers + 1) : deleteTeacher(id)
    /\ UNCHANGED <<now, usersTable, studentsTable, classSchedulesTable,
                   attendanceRecordsTable, serial, log, tokens, scanner>>

\* A unique constraint on class_name that never rejects.
classNameViolationNever(schedules, row) == FALSE

\* class_name is unique: an update that would leave two rows of one class_name
\* is rejected.
classNameViolation(schedules, row) ==
    \E r \in schedules : r.id # row.id /\ r.class_name = row.class_name

\* An optional field of an update is Null when left out and Some(v) when given.
\* update ... set ... where id = ... returning: no row returned means the id
\* is unknown.
updateClassSchedule(input) ==
    LET found == {r \in classSchedulesTable : r.id = input.id}
        old == CHOOSE r \in found : TRUE
        withName == IF input.class_name = Null THEN old
                    ELSE [old EXCEPT !.class_name = input.class_name[1]]
        withCheckIn == IF input.check_in_time = Null THEN withName
                       ELSE [withName EXCEPT !.check_in_time = input.check_in_time[1]]
        withTolerance ==
            IF input.late_tolerance_minutes = Null THEN withCheckIn
            ELSE [withCheckIn EXCEPT
                    !.late_tolerance_minutes = input.late_tolerance_minutes[1]]
        withCheckout ==
            IF input.min_checkout_time = Null THEN withTolerance
            ELSE [withTolerance EXCEPT !.min_checkout_time = input.min_checkout_time[1]]
        withActive == IF input.is_active = Null THEN withCheckout
                      ELSE [withCheckout EXCEPT !.is_active = input.is_active[1]]
        row == [withActive EXCEPT !.updated_at = now]
        answer(out) == [op |-> "updateClassSchedule", input |-> input, at |-> now,
                        out |-> out]
    IN  IF found = {}
          THEN /\ last' = answer(Err("Class schedule not found"))
               /\ UNCHANGED classSchedulesTable
        ELSE IF classNameViolation(classSchedulesTable, row)
          THEN /\ last' = answer(Err("duplicate key value violates unique constraint"))
               /\ UNCHANGED classSchedulesTable
        ELSE /\ classSchedulesTable' = (classSchedulesTable \ found) \cup {row}
             /\ last' = answer(Ok(row))

UpdateClassSchedule ==
    /\ \E id \in 1..(serial.class_schedules + 1),
          c \in {Null} \cup {Some(x) : x \in Classes},
          t \in {Null, Some(1)},
          a \in {Null, Some(FALSE), Some(TRUE)} :
          updateClassSchedule([id |-> id, class_name |-> c, check_in_time |-> Null,
                               late_tolerance_minutes |-> t,
                               min_checkout_time |-> Null, is_active |-> a])
    /\ UNCHANGED <<now, usersTable, studentsTable, teachersTable, attendanceRecordsTable,
                   serial, log, tokens, scanner>>

\* A list of schedules that leaves nothing out.
getClassSchedulesUnfiltered == classSchedulesTable

getClassSchedules == {r \in classSchedulesTable : r.is_active}

getClassScheduleByClassName(className) ==
    LET result == {r \in classSchedulesTable : r.class_name = className}
    IN  IF result # {} THEN Some(CHOOSE r \in result : TRUE) ELSE Null

(***************************************************************************)
(* attendance                                                              *)
(***************************************************************************)
\* A handler that, finding no schedule, measures lateness against 00:00.
scanRecordLateWithoutSchedule(input, t) ==
    [id |-> 1, student_id |-> 1, date |-> t,
     check_in_time |-> Some(t), check_out_time |-> Null,
     status |-> IF MinuteOfDay(t) = 0 THEN "present" ELSE "late",
     notes |-> Null, recorded_by |-> input.recorded_by,
     created_at |-> t, updated_at |-> t]

\* The record scanQrCodeForAttendance resolves to.
scanQrCodeForAttendanceRecord(input, t) ==
    [id |-> 1, student_id |-> 1, date |-> t,
     check_in_time |-> Some(t), check_out_time |-> Null,
     status |-> "present", notes |-> Null, recorded_by |-> input.recorded_by,
     created_at |-> t, updated_at |-> t]

\* A handler that inserts a row on every scan without looking for an
\* existing one.
scanLedgerInsertingAlways(table, input, t) ==
    LET found == getStudentByQrCode(input.qr_code)
    IN  IF found = Null THEN table
        ELSE table \cup
               {[id |-> Cardinality(table) + 1, student_id |-> found[1].id,
                 date |-> t, check_in_time |-> Some(t), check_out_time |-> Null,
                 status |-> "present", notes |-> Null,
                 recorded_by |-> input.recorded_by,
                 created_at |-> t, updated_at |-> t]}

\* The ledger after scanQrCodeForAttendance: the handler issues no statement.
scanQrCodeForAttendanceLedger(table, input, t) == table

scanQrCodeForAttendance(input) ==
    LET out == Ok(scanQrCodeForAttendanceRecord(input, now))
        call == [op |-> "scanQrCodeForAttendance", input |-> input, at |-> now,
                 out |-> out]
    IN  /\ attendanceRecordsTable' =
              scanQrCodeForAttendanceLedger(attendanceRecordsTable, input, now)
        /\ last' = call
        /\ log' = Append(log, call)

ScanQrCodeForAttendance ==
    /\ Len(log) < MaxCalls
    /\ \E q \in {s.qr_code : s \in studentsTable} \cup {UnknownQr}, c \in Callers :
          scanQrCodeForAttendance([qr_code |-> q, recorded_by |-> c])
    /\ UNCHANGED <<now, usersTable, studentsTable, teachersTable, classSchedulesTable, serial, tokens, scanner>>

\* The record recordAttendance resolves to.
recordAttendanceRecord(input, t) ==
    [id |-> 1, student_id |-> input.student_id, date |-> input.date,
     check_in_time |-> input.check_in_time, check_out_time |-> input.check_out_time,
     status |-> input.status, notes |-> input.notes,
     recorded_by |-> input.recorded_by, created_at |-> t, updated_at |-> t]

\* The ledger after recordAttendance: the handler issues no statement.
recordAttendanceLedger(table, input, t) == table

recordAttendance(input) ==
    LET out == Ok(recordAttendanceRecord(input, now))
        call == [op |-> "recordAttendance", input |-> input, at |-> now, out |-> out]
    IN  /\ attendanceRecordsTable' =
              recordAttendanceLedger(attendanceRecordsTable, input, now)
        /\ last' = call
        /\ log' = Append(log, call)

RecordAttendance ==
    /\ Len(log) < MaxCalls
    /\ \E sid \in {s.id : s \in studentsTable}, st \in ManualStatuses, c \in {1} :
          recordAttendance([student_id |-> sid, date |-> now,
                            check_in_time |-> Null, check_out_time |-> Some(now),
                            status |-> st, notes |-> Some("izin"),
                            recorded_by |-> c])
    /\ UNCHANGED <<now, usersTable, studentsTable, teachersTable, classSchedulesTable, serial, tokens, scanner>>

(***************************************************************************)
(* Text.  A JavaScript string is the sequence of its UTF-16 code units.    *)
(***************************************************************************)
B64Char(v) ==
    IF v < 26 THEN 65 + v
    ELSE IF v < 52 THEN 97 + (v - 26)
    ELSE IF v < 62 THEN 48 + (v - 52)
    ELSE IF v = 62 THEN 43 ELSE 47

B64Value(c) ==
    IF c \in 65..90 THEN c - 65
    ELSE IF c \in 97..122 THEN c - 71
    ELSE IF c \in 48..57 THEN c + 4
    ELSE IF c = 43 THEN 62
    ELSE IF c = 47 THEN 63 ELSE -1

\* btoa: base64 of a string of code units up to 255; it throws on any other.
btoa(str) ==
    IF \E i \in 1..Len(str) : str[i] > 255
      THEN Err("InvalidCharacterError")
      ELSE LET n == Len(str)
               byte(i) == IF i <= n THEN str[i] ELSE 0
               group(k) == byte(3 * k - 2) * 65536 + byte(3 * k - 1) * 256 + byte(3 * k)
               char(j) ==
                 LET k == (j - 1) \div 4 + 1
                     v == group(k)
                 IN  CASE (j - 1) % 4 = 0 -> B64Char(v \div 262144)
                       [] (j - 1) % 4 = 1 -> B64Char((v \div 4096) % 64)
                       [] (j - 1) % 4 = 2 ->
                            IF 3 * k - 1 <= n THEN B64Char((v \div 64) % 64) ELSE 61
                       [] (j - 1) % 4 = 3 ->
                            IF 3 * k <= n THEN B64Char(v % 64) ELSE 61
           IN  Ok([j \in 1..(4 * ((n + 2) \div 3)) |-> char(j)])

\* A base64 decoder that skips every character outside the alphabet.
atobSkippingForeign(str) ==
    LET t == SelectSeq(str, LAMBDA c : B64Value(c) >= 0 \/ c = 61)
        pad == IF Len(t) % 4 = 0 /\ Len(t) >= 2 /\ t[Len(t)] = 61
                 THEN IF t[Len(t) - 1] = 61 THEN 2 ELSE 1
                 ELSE 0
        u == SubSeq(t, 1, Len(t) - pad)
        m == Len(u)
        val(i) == IF i <= m THEN B64Value(u[i]) ELSE 0
        byte(j) ==
          LET i == (8 * (j - 1)) \div 6
              off == (8 * (j - 1)) % 6
              w == val(i + 1) * 4096 + val(i + 2) * 64 + val(i + 3)
          IN  (w \div (IF off = 0 THEN 1024 ELSE IF off = 2 THEN 256 ELSE 64)) % 256
    IN  IF m % 4 = 1 \/ \E i \in 1..m : B64Value(u[i]) < 0
          THEN Err("InvalidCharacterError")
          ELSE Ok([j \in 1..((m * 6) \div 8) |-> byte(j)])

\* atob: the forgiving base64 decoder; it throws on text that is not base64.
atob(str) ==
    LET t == SelectSeq(str, LAMBDA c : c \notin {9, 10, 12, 13, 32})
        pad == IF Len(t) % 4 = 0 /\ Len(t) >= 2 /\ t[Len(t)] = 61
                 THEN IF t[Len(t) - 1] = 61 THEN 2 ELSE 1
                 ELSE 0
        u == SubSeq(t, 1, Len(t) - pad)
        m == Len(u)
        val(i) == IF i <= m THEN B64Value(u[i]) ELSE 0
        byte(j) ==
          LET i == (8 * (j - 1)) \div 6
              off == (8 * (j - 1)) % 6
              w == val(i + 1) * 4096 + val(i + 2) * 64 + val(i + 3)
          IN  (w \div (IF off = 0 THEN 1024 ELSE IF off = 2 THEN 256 ELSE 64)) % 256
    IN  IF m % 4 = 1 \/ \E i \in 1..m : B64Value(u[i]) < 0
          THEN Err("InvalidCharacterError")
          ELSE Ok([j \in 1..((m * 6) \div 8) |-> byte(j)])

RECURSIVE Dec(_)
\* The decimal text of a natural number.
Dec(n) == IF n < 10 THEN <<48 + n>> ELSE Append(Dec(n \div 10), 48 + (n % 10))

HexChar(d) == IF d < 10 THEN 48 + d ELSE 87 + d

HexValue(c) ==
    IF c \in 48..57 THEN c - 48
    ELSE IF c \in 97..102 THEN c - 87
    ELSE IF c \in 65..70 THEN c - 55 ELSE -1

RECURSIVE JsonEscape(_)
\* JSON.stringify's escaping of a string without surrogate code units.
JsonEscape(str) ==
    IF str = <<>> THEN <<>>
    ELSE LET c == Head(str)
             e == IF c \in {34, 92} THEN <<92, c>>
                  ELSE IF c = 8 THEN <<92, 98>>
                  ELSE IF c = 9 THEN <<92, 116>>
                  ELSE IF c = 10 THEN <<92, 110>>
                  ELSE IF c = 12 THEN <<92, 102>>
                  ELSE IF c = 13 THEN <<92, 114>>
                  ELSE IF c < 32 THEN <<92, 117, 48, 48, HexChar(c \div 16), HexChar(c % 16)>>
                  ELSE <<c>>
         IN  e \o JsonEscape(Tail(str))

JsonQuote(str) == <<34>> \o JsonEscape(str) \o <<34>>

\* A parsed JSON value: [t |-> its type, v |-> its content]; an object's
\* content is the sequence of its members, [key, value] each.
JsonUndefined == [t |-> "undefined", v |-> 0]
ParseFail == [ok |-> FALSE, value |-> JsonUndefined, next |-> 0]
Parsed(value, next) == [ok |-> TRUE, value |-> value, next |-> next]

RECURSIVE JsonSkip(_, _)
JsonSkip(txt, j) ==
    IF j <= Len(txt) /\ txt[j] \in {9, 10, 13, 32} THEN JsonSkip(txt, j + 1) ELSE j

RECURSIVE JsonStringBody(_, _, _)
\* The string whose opening quote precedes txt[j].
JsonStringBody(txt, j, acc) ==
    IF j > Len(txt) THEN ParseFail
    ELSE IF txt[j] = 34 THEN Parsed([t |-> "string", v |-> acc], j + 1)
    ELSE IF txt[j] < 32 THEN ParseFail
    ELSE IF txt[j] # 92 THEN JsonStringBody(txt, j + 1, Append(acc, txt[j]))
    ELSE IF j + 1 > Len(txt) THEN ParseFail
    ELSE LET e == txt[j + 1]
         IN  IF e \in {34, 92, 47} THEN JsonStringBody(txt, j + 2, Append(acc, e))
             ELSE IF e = 98 THEN JsonStringBody(txt, j + 2, Append(acc, 8))
             ELSE IF e = 116 THEN JsonStringBody(txt, j + 2, Append(acc, 9))
             ELSE IF e = 110 THEN JsonStringBody(txt, j + 2, Append(acc, 10))
             ELSE IF e = 102 THEN JsonStringBody(txt, j + 2, Append(acc, 12))
             ELSE IF e = 114 THEN JsonStringBody(txt, j + 2, Append(acc, 13))
             ELSE IF e = 117 /\ j + 5 <= Len(txt)
                     /\ \A k \in 2..5 : HexValue(txt[j + k]) >= 0
               THEN JsonStringBody(txt, j + 6,
                      Append(acc, HexValue(txt[j + 2]) * 4096 + HexValue(txt[j + 3]) * 256
                                  + HexValue(txt[j + 4]) * 16 + HexValue(txt[j + 5])))
             ELSE ParseFail

RECURSIVE JsonDigits(_, _, _)
JsonDigits(txt, j, acc) ==
    IF j <= Len(txt) /\ txt[j] \in 48..57
      THEN JsonDigits(txt, j + 1, acc * 10 + (txt[j] - 48))
      ELSE Parsed([t |-> "number", v |-> acc], j)

\* An integer; a number with a fraction or an exponent is outside the model
\* and refused.
JsonNumber(txt, j) ==
    LET neg == txt[j] = 45
        k == IF neg THEN j + 1 ELSE j
    IN  IF k > Len(txt) \/ txt[k] \notin 48..57 THEN ParseFail
        ELSE IF txt[k] = 48 /\ k + 1 <= Len(txt) /\ txt[k + 1] \in 48..57 THEN ParseFail
        ELSE LET r == JsonDigits(txt, k, 0)
             IN  IF r.next <= Len(txt) /\ txt[r.next] \in {46, 69, 101} THEN ParseFail
                 ELSE IF neg THEN Parsed([t |-> "number", v |-> 0 - r.value.v], r.next)
                 ELSE r

\* A string or a number; nested objects, arrays and the literals true, false
\* and null are outside the model and refused.
JsonScalar(txt, j) ==
    IF j > Len(txt) THEN ParseFail
    ELSE IF txt[j] = 34 THEN JsonStringBody(txt, j + 1, <<>>)
    ELSE JsonNumber(txt, j)

RECURSIVE JsonMembers(_, _, _)
\* The members of an object from txt[j], the start of a key, to its brace.
JsonMembers(txt, j, acc) ==
    IF j > Len(txt) \/ txt[j] # 34 THEN ParseFail
    ELSE LET key == JsonStringBody(txt, j + 1, <<>>)
             colon == IF key.ok THEN JsonSkip(txt, key.next) ELSE 0
         IN  IF ~ key.ok \/ colon > Len(txt) \/ txt[colon] # 58 THEN ParseFail
             ELSE LET val == JsonScalar(txt, JsonSkip(txt, colon + 1))
                      sep == IF val.ok THEN JsonSkip(txt, val.next) ELSE 0
                      all == Append(acc, [key |-> key.value.v, value |-> val.value])
                  IN  IF ~ val.ok \/ sep > Len(txt) THEN ParseFail
                      ELSE IF txt[sep] = 125 THEN Parsed([t |-> "object", v |-> all], sep + 1)
                      ELSE IF txt[sep] = 44 THEN JsonMembers(txt, JsonSkip(txt, sep + 1), all)
                      ELSE ParseFail

\* JSON.parse; it throws SyntaxError on text that is not JSON.
JsonParse(txt) ==
    LET j == JsonSkip(txt, 1)
        r == IF j > Len(txt) THEN ParseFail
             ELSE IF txt[j] # 123 THEN JsonScalar(txt, j)
             ELSE LET k == JsonSkip(txt, j + 1)
                  IN  IF k <= Len(txt) /\ txt[k] = 125
                        THEN Parsed([t |-> "object", v |-> <<>>], k + 1)
                        ELSE JsonMembers(txt, k, <<>>)
    IN  IF r.ok /\ JsonSkip(txt, r.next) = Len(txt) + 1
          THEN Ok(r.value)
          ELSE Err("SyntaxError")

\* value.key, the last member of that name winning.
JsonGet(value, key) ==
    IF value.t # "object" THEN JsonUndefined
    ELSE LET at == {i \in 1..Len(value.v) : value.v[i].key = key}
         IN  IF at = {} THEN JsonUndefined
             ELSE value.v[CHOOSE i \in at : \A k \in at : k <= i].value

(***************************************************************************)
(* users and authentication                                                *)
(***************************************************************************)
JWT_SECRET == <<121, 111, 117, 114, 45, 115, 101, 99, 114, 101, 116, 45, 107, 101, 121>>
    \* your-secret-key

Roles == {"admin", "teacher", "student"}

\* The text of a user_role value.
RoleText(role) ==
    CASE role = "admin" -> <<97, 100, 109, 105, 110>>
      [] role = "teacher" -> <<116, 101, 97, 99, 104, 101, 114>>
      [] role = "student" -> <<115, 116, 117, 100, 101, 110, 116>>

\* The user names adi, é"\. and €ur.
Usernames == {<<97, 100, 105>>, <<233, 34, 92, 46>>, <<8364, 117, 114>>}
UnknownUsername == <<120, 120, 120>>
\* The accounts user management has made: adi the admin, é"\. the teacher,
\* €ur the student.
Accounts ==
    {<<<<97, 100, 105>>, "admin">>,
     <<<<233, 34, 92, 46>>, "teacher">>,
     <<<<8364, 117, 114>>, "student">>}
Passwords == {"rahasia1", "salah123", "adifathi2020"}
\* The default administrator: admin, with the password adifathi2020.
adminUsername == <<97, 100, 109, 105, 110>>
adminPassword == "adifathi2020"

\* Bun.password.hash and Bun.password.verify: a hash verifies the password it
\* was made from and no other.
hashPassword(password) == <<"$argon2id$", password>>
verifyPassword(plainPassword, hashedPassword) == hashedPassword[2] = plainPassword

getUserById(id) ==
    LET result == {u \in usersTable : u.id = id}
    IN  IF result # {} THEN Some(CHOOSE u \in result : TRUE) ELSE Null

\* username is unique: the insert draws an id from the sequence and is then
\* rejected by the constraint.
createUser(input) ==
    /\ serial' = [serial EXCEPT !.users = @ + 1]
    /\ IF \E u \in usersTable : u.username = input.username
         THEN /\ last' = [op |-> "createUser", input |-> input, at |-> now,
                          out |-> Err("duplicate key value violates unique constraint")]
              /\ UNCHANGED usersTable
         ELSE LET row == [id |-> serial.users + 1, username |-> input.username,
                          password_hash |-> hashPassword(input.password),
                          role |-> input.role, full_name |-> input.full_name,
                          email |-> input.email, is_active |-> TRUE,
                          created_at |-> now, updated_at |-> now]
              IN  /\ usersTable' = usersTable \cup {row}
                  /\ last' = [op |-> "createUser", input |-> input, at |-> now,
                              out |-> Ok(row)]

CreateUser ==
    /\ serial.users < MaxSerial
    /\ \E n \in Usernames, r \in Roles :
          createUser([username |-> n, password |-> "rahasia1", role |-> r,
                      full_name |-> "Pengguna", email |-> Null])
    /\ UNCHANGED <<now, studentsTable, teachersTable, classSchedulesTable, attendanceRecordsTable,
                   log, tokens, scanner>>

\* An optional field of an update is Null when left out and Some(v) when given.
\* username is unique: an update that would leave two rows of one username
\* is rejected.
updateUser(input) ==
    LET existingUser == getUserById(input.id)
        old == existingUser[1]
        withName == IF input.username = Null THEN old
                    ELSE [old EXCEPT !.username = input.username[1]]
        withFullName == IF input.full_name = Null THEN withName
                        ELSE [withName EXCEPT !.full_name = input.full_name[1]]
        withRole == IF input.role = Null THEN withFullName
                    ELSE [withFullName EXCEPT !.role = input.role[1]]
        withEmail == IF input.email = Null THEN withRole
                     ELSE [withRole EXCEPT !.email = input.email[1]]
        withActive == IF input.is_active = Null THEN withEmail
                      ELSE [withEmail EXCEPT !.is_active = input.is_active[1]]
        withPassword ==
            IF input.password = Null THEN withActive
            ELSE [withActive EXCEPT !.password_hash = hashPassword(input.password[1])]
        row == [withPassword EXCEPT !.updated_at = now]
        answer(out) == [op |-> "updateUser", input |-> input, at |-> now, out |-> out]
    IN  IF existingUser = Null
          THEN /\ last' = answer(Err(<<"User with id ", input.id, " not found">>))
               /\ UNCHANGED usersTable
        ELSE IF \E u \in usersTable : u.id # row.id /\ u.username = row.username
          THEN /\ last' = answer(Err("duplicate key value violates unique constraint"))
               /\ UNCHANGED usersTable
        ELSE /\ usersTable' = (usersTable \ {old}) \cup {row}
             /\ last' = answer(Ok(row))

\* The updates an administrator makes: a new password, another role, the
\* account switched off, the account switched on again.
UserChanges ==
    {[password |-> Some("salah123"), role |-> Null, is_active |-> Null],
     [password |-> Null, role |-> Some("student"), is_active |-> Null],
     [password |-> Null, role |-> Null, is_active |-> Some(FALSE)],
     [password |-> Null, role |-> Null, is_active |-> Some(TRUE)]}

UpdateUser ==
    /\ \E id \in 1..(serial.users + 1), c \in UserChanges :
          updateUser([id |-> id, username |-> Null, password |-> c.password,
                      role |-> c.role, full_name |-> Null, email |-> Null,
                      is_active |-> c.is_active])
    /\ UNCHANGED <<now, studentsTable, teachersTable, classSchedulesTable, attendanceRecordsTable,
                   serial, log, tokens, scanner>>

initializeDefaultAdmin ==
    LET existingAdmins == {u \in usersTable : u.username = adminUsername}
        hashedPassword == hashPassword(adminPassword)
    IN  /\ last' = [op |-> "initializeDefaultAdmin", input |-> Null, at |-> now,
                    out |-> Ok(Null)]
        /\ IF existingAdmins = {}
             THEN /\ usersTable' = usersTable \cup
                        {[id |-> serial.users + 1, username |-> adminUsername,
                          password_hash |-> hashedPassword, role |-> "admin",
                          full_name |-> "Administrator",
                          email |-> Some("admin@smpitadifathi.sch.id"),
                          is_active |-> TRUE, created_at |-> now, updated_at |-> now]}
                  /\ serial' = [serial EXCEPT !.users = @ + 1]
             ELSE /\ usersTable' =
                        {IF u \in existingAdmins
                           THEN [u EXCEPT !.password_hash = hashedPassword,
                                          !.is_active = TRUE, !.updated_at = now]
                           ELSE u : u \in usersTable}
                  /\ UNCHANGED serial

InitializeDefaultAdmin ==
    /\ serial.users < MaxSerial \/ \E u \in usersTable : u.username = adminUsername
    /\ initializeDefaultAdmin
    /\ UNCHANGED <<now, studentsTable, teachersTable, classSchedulesTable, attendanceRecordsTable,
                   log, tokens, scanner>>

deleteUser(id) ==
    IF getUserById(id) = Null
      THEN /\ last' = [op |-> "deleteUser", input |-> id, at |-> now, out |-> Ok(FALSE)]
           /\ UNCHANGED usersTable
      ELSE /\ usersTable' =
                 {IF u.id = id
                    THEN [u EXCEPT !.is_active = FALSE, !.updated_at = now]
                    ELSE u : u \in usersTable}
           /\ last' = [op |-> "deleteUser", input |-> id, at |-> now, out |-> Ok(TRUE)]

DeleteUser ==
    /\ \E id \in 1..(serial.users + 1) : deleteUser(id)
    /\ UNCHANGED <<now, studentsTable, teachersTable, classSchedulesTable, attendanceRecordsTable,
                   serial, log, tokens, scanner>>

\* 24 hours, in seconds
TokenLifetimeInSeconds == 24 * 60 * 60

\* 24 hours, in milliseconds
TokenLifetime == 24 * 60 * 60 * 1000

tokenPayload(user, t) ==
    [userId |-> user.id, role |-> user.role, username |-> user.username,
     exp |-> t + TokenLifetime]

\* JSON.stringify(tokenPayload)
stringifyTokenPayload(payload) ==
    <<123, 34, 117, 115, 101, 114, 73, 100, 34, 58>> \o Dec(payload.userId)
      \o <<44, 34, 114, 111, 108, 101, 34, 58>> \o JsonQuote(RoleText(payload.role))
      \o <<44, 34, 117, 115, 101, 114, 110, 97, 109, 101, 34, 58>>
      \o JsonQuote(payload.username)
      \o <<44, 34, 101, 120, 112, 34, 58>> \o Dec(payload.exp)
      \o <<125>>

\* A login that tells an unknown user name apart from a wrong password.
loginOutcomeNamingUnknownUser(input, t) ==
    LET users == {u \in usersTable : u.username = input.username}
        user == CHOOSE u \in users : TRUE
        body == btoa(stringifyTokenPayload(tokenPayload(user, t)))
        sign == btoa(JWT_SECRET)
    IN  IF users = {} THEN Err("User not found")
        ELSE IF ~ user.is_active THEN Err("User account is disabled")
        ELSE IF ~ verifyPassword(input.password, user.password_hash)
          THEN Err("Invalid username or password")
        ELSE IF ~ body.ok THEN body
        ELSE IF ~ sign.ok THEN sign
        ELSE Ok([user |-> user, token |-> body.value \o <<46>> \o sign.value])

\* The outcome of login at instant t.
loginOutcome(input, t) ==
    LET users == {u \in usersTable : u.username = input.username}
        user == CHOOSE u \in users : TRUE
        body == btoa(stringifyTokenPayload(tokenPayload(user, t)))
        sign == btoa(JWT_SECRET)
    IN  IF users = {} THEN Err("Invalid username or password")
        ELSE IF ~ user.is_active THEN Err("User account is disabled")
        ELSE IF ~ verifyPassword(input.password, user.password_hash)
          THEN Err("Invalid username or password")
        ELSE IF ~ body.ok THEN body
        ELSE IF ~ sign.ok THEN sign
        ELSE Ok([user |-> user, token |-> body.value \o <<46>> \o sign.value])

login(input) ==
    LET out == loginOutcome(input, now)
        issued == [token |-> out.value.token, user |-> out.value.user, at |-> now]
    IN  /\ out.ok => Cardinality(tokens \cup {issued}) <= MaxTokens
        /\ last' = [op |-> "login", input |-> input, at |-> now, out |-> out]
        /\ tokens' = IF out.ok THEN tokens \cup {issued} ELSE tokens

Login ==
    /\ \E n \in {u.username : u \in usersTable} \cup {UnknownUsername}, p \in Passwords :
          login([username |-> n, password |-> p])
    /\ UNCHANGED <<now, usersTable, studentsTable, teachersTable, classSchedulesTable,
                   attendanceRecordsTable, serial, log, scanner>>

\* A validateToken that takes the secret itself for the signature part.
expectedSignatureUnencoded == Ok(JWT_SECRET)

\* btoa(JWT_SECRET), the signature part validateToken expects
expectedSignature == btoa(JWT_SECRET)

\* A validateToken that looks for the user's row and not at its is_active.
validateTokenOfAnyRow(token) ==
    LET dots == {i \in 1..Len(token) : token[i] = 46}
        dot == CHOOSE i \in dots : TRUE
        payloadPart == SubSeq(token, 1, dot - 1)
        signaturePart == SubSeq(token, dot + 1, Len(token))
        text == atob(payloadPart)
        parsed == JsonParse(text.value)
        exp == JsonGet(parsed.value, <<101, 120, 112>>)
        userId == JsonGet(parsed.value, <<117, 115, 101, 114, 73, 100>>)
        role == JsonGet(parsed.value, <<114, 111, 108, 101>>)
        users == {u \in usersTable : userId.t = "number" /\ u.id = userId.v}
    IN  IF Cardinality(dots) # 1 THEN Null
        ELSE IF ~ expectedSignature.ok THEN Null
        ELSE IF signaturePart # expectedSignature.value THEN Null
        ELSE IF ~ text.ok THEN Null
        ELSE IF ~ parsed.ok THEN Null
        ELSE IF exp.t = "number" /\ exp.v < now THEN Null
        ELSE IF users = {} THEN Null
        ELSE Some([userId |-> userId, role |-> role])

\* A validateToken whose comparison of exp with the clock is turned around.
validateTokenAtComparingBackwards(token, t) ==
    LET dots == {i \in 1..Len(token) : token[i] = 46}
        dot == CHOOSE i \in dots : TRUE
        payloadPart == SubSeq(token, 1, dot - 1)
        signaturePart == SubSeq(token, dot + 1, Len(token))
        text == atob(payloadPart)
        parsed == JsonParse(text.value)
        exp == JsonGet(parsed.value, <<101, 120, 112>>)
        userId == JsonGet(parsed.value, <<117, 115, 101, 114, 73, 100>>)
        role == JsonGet(parsed.value, <<114, 111, 108, 101>>)
        users == {u \in usersTable : userId.t = "number" /\ u.id = userId.v}
    IN  IF Cardinality(dots) # 1 THEN Null
        ELSE IF ~ expectedSignature.ok THEN Null
        ELSE IF signaturePart # expectedSignature.value THEN Null
        ELSE IF ~ text.ok THEN Null
        ELSE IF ~ parsed.ok THEN Null
        ELSE IF exp.t = "number" /\ exp.v > t THEN Null
        ELSE IF users = {} \/ ~ (CHOOSE u \in users : TRUE).is_active THEN Null
        ELSE Some([userId |-> userId, role |-> role])

\* What validateToken resolves to when it reads t from the clock: null, or
\* {userId, role} as decoded.
validateTokenAt(token, t) ==
    LET dots == {i \in 1..Len(token) : token[i] = 46}
        dot == CHOOSE i \in dots : TRUE
        payloadPart == SubSeq(token, 1, dot - 1)
        signaturePart == SubSeq(token, dot + 1, Len(token))
        text == atob(payloadPart)
        parsed == JsonParse(text.value)
        exp == JsonGet(parsed.value, <<101, 120, 112>>)
        userId == JsonGet(parsed.value, <<117, 115, 101, 114, 73, 100>>)
        role == JsonGet(parsed.value, <<114, 111, 108, 101>>)
        users == {u \in usersTable : userId.t = "number" /\ u.id = userId.v}
    IN  IF Cardinality(dots) # 1 THEN Null
        ELSE IF ~ expectedSignature.ok THEN Null
        ELSE IF signaturePart # expectedSignature.value THEN Null
        ELSE IF ~ text.ok THEN Null
        ELSE IF ~ parsed.ok THEN Null
        ELSE IF exp.t = "number" /\ exp.v < t THEN Null
        ELSE IF users = {} \/ ~ (CHOOSE u \in users : TRUE).is_active THEN Null
        ELSE Some([userId |-> userId, role |-> role])

\* The texts '', 'a.b.c', 'e30.invalid', 'single', and '!e30.' and 'ew==.'
\* followed by the base64 of the secret: no token, three parts, a foreign
\* second part, one part, a payload that is not base64, and one that is not
\* JSON.
MalformedTokens ==
    {<<>>,
     <<97, 46, 98, 46, 99>>,
     <<101, 51, 48, 46, 105, 110, 118, 97, 108, 105, 100>>,
     <<115, 105, 110, 103, 108, 101>>,
     <<33, 101, 51, 48, 46>> \o btoa(JWT_SECRET).value,
     <<101, 119, 61, 61, 46>> \o btoa(JWT_SECRET).value}

\* A token made outside login from a payload, as the test of expiry makes one.
craftToken(payload) ==
    btoa(stringifyTokenPayload(payload)).value \o <<46>> \o btoa(JWT_SECRET).value

\* What a client holding the issued token t may present in its place: t
\* behind a character that is not base64, and t's payload with another role,
\* or with a later exp, under the second part of t.
TokensMadeFrom(t) ==
    LET payload == tokenPayload(t.user, t.at)
    IN  {<<33>> \o t.token,
         craftToken([payload EXCEPT
                       !.role = IF @ = "admin" THEN "student" ELSE "admin"]),
         craftToken([payload EXCEPT !.exp = @ + TokenLifetime])}

validateToken(token) == validateTokenAt(token, now)

\* A validation that stamps the row of the user it verified.
ValidateTokenStampingUser ==
    /\ \E token \in {t.token : t \in tokens} \cup {<<>>} :
          LET out == validateTokenAt(token, now)
          IN  /\ last' = [op |-> "validateToken", input |-> token, at |-> now,
                          out |-> Ok(out)]
              /\ usersTable' =
                    IF out = Null THEN usersTable
                    ELSE {IF u.id = out[1].userId.v THEN [u EXCEPT !.updated_at = now + 1] ELSE u
                          : u \in usersTable}
    /\ UNCHANGED <<now, studentsTable, teachersTable, classSchedulesTable,
                   attendanceRecordsTable, serial, log, tokens, scanner>>

ValidateToken ==
    /\ \E token \in {t.token : t \in tokens} \cup {<<>>} :
          last' = [op |-> "validateToken", input |-> token, at |-> now,
                   out |-> Ok(validateToken(token))]
    /\ UNCHANGED <<now, usersTable, studentsTable, teachersTable, classSchedulesTable,
                   attendanceRecordsTable, serial, log, tokens, scanner>>

\* validateToken called with a text that login did not return.
ValidateClientToken ==
    /\ \E token \in MalformedTokens \cup UNION {TokensMadeFrom(t) : t \in tokens} :
          last' = [op |-> "validateToken", input |-> token, at |-> now,
                   out |-> Ok(validateToken(token))]
    /\ UNCHANGED <<now, usersTable, studentsTable, teachersTable, classSchedulesTable,
                   attendanceRecordsTable, serial, log, tokens, scanner>>

\* The users row deleted in the database itself, as the test of a token for a
\* non-existent user does; no handler deletes a row.
RemoveUserRow ==
    /\ \E u \in usersTable :
          /\ usersTable' = usersTable \ {u}
          /\ last' = [op |-> "db.delete(usersTable)", input |-> u.id, at |-> now,
                      out |-> Ok(Null)]
    /\ UNCHANGED <<now, studentsTable, teachersTable, classSchedulesTable,
                   attendanceRecordsTable, serial, log, tokens, scanner>>

(***************************************************************************)
(* the QRScanner component                                                 *)
(***************************************************************************)
MaxRequests == 2    \* scan requests the component waits for at once

\* The component as mounted: the initial values of its state hooks, and no
\* request under way.  The timer of startScanning is pending exactly while
\* isScanning is true.
QRScanner ==
    [isScanning |-> FALSE, scanResult |-> Null, error |-> Null, success |-> Null,
     requests |-> 0]

sampleQRCode == <<"QR", "123456789">>

\* A click on Start Scanner, which is disabled while isScanning.
startScanning ==
    /\ ~ scanner.isScanning
    /\ scanner.requests < MaxRequests
    /\ scanner' = [scanner EXCEPT !.isScanning = TRUE]

StartScanning ==
    /\ startScanning
    /\ UNCHANGED <<now, usersTable, studentsTable, teachersTable, classSchedulesTable,
                   attendanceRecordsTable, serial, last, log, tokens>>

\* The timer of startScanning fires: handleScanQR clears the error and sends
\* the request, and isScanning is reset without waiting for the answer.
ScanTimerFires ==
    /\ scanner.isScanning
    /\ scanner' = [scanner EXCEPT !.error = Null, !.requests = @ + 1,
                                  !.isScanning = FALSE]
    /\ UNCHANGED <<now, usersTable, studentsTable, teachersTable, classSchedulesTable,
                   attendanceRecordsTable, serial, last, log, tokens>>

\* A request of handleScanQR is answered by the server's handler.
ScanRequestResolves ==
    /\ scanner.requests > 0
    /\ Len(log) < MaxCalls
    /\ \E c \in Callers :
          LET scanInput == [qr_code |-> sampleQRCode, recorded_by |-> c]
          IN  /\ scanQrCodeForAttendance(scanInput)
              /\ scanner' =
                    [scanner EXCEPT
                       !.scanResult = Some(scanQrCodeForAttendanceRecord(scanInput, now)),
                       !.success = Some("Attendance recorded successfully!"),
                       !.requests = @ - 1]
    /\ UNCHANGED <<now, usersTable, studentsTable, teachersTable, classSchedulesTable,
                   serial, tokens>>

\* A request of handleScanQR fails before the server's handler runs.
ScanRequestRejects ==
    /\ scanner.requests > 0
    /\ scanner' =
          [scanner EXCEPT
             !.error = Some("Failed to record attendance. Please try again."),
             !.requests = @ - 1]
    /\ UNCHANGED <<now, usersTable, studentsTable, teachersTable, classSchedulesTable,
                   attendanceRecordsTable, serial, last, log, tokens>>

\* A click on Scan Next Student, which is rendered while there is a scanResult.
ScanNextStudent ==
    /\ scanner.scanResult # Null
    /\ scanner' = [scanner EXCEPT !.scanResult = Null, !.success = Null]
    /\ UNCHANGED <<now, usersTable, studentsTable, teachersTable, classSchedulesTable,
                   attendanceRecordsTable, serial, last, log, tokens>>

(***************************************************************************)
(* the clock                                                               *)
(***************************************************************************)
Tick ==
    /\ MinuteOfDay(now) < MaxMinute
    /\ now' = now + MsPerMinute
    /\ UNCHANGED <<usersTable, studentsTable, teachersTable, classSchedulesTable,
                   attendanceRecordsTable, serial, last, log, tokens, scanner>>

AdvanceDay ==
    /\ DateOf(now) < MaxDay
    /\ now' = now + MsPerDay
    /\ log' = <<>>
    /\ UNCHANGED <<usersTable, studentsTable, teachersTable, classSchedulesTable,
                   attendanceRecordsTable, serial, last, tokens, scanner>>

(***************************************************************************)
(* specifications                                                          *)
(***************************************************************************)
Init ==
    /\ now = 0
    /\ usersTable = {}
    /\ studentsTable = {}
    /\ teachersTable = {}
    /\ classSchedulesTable = {}
    /\ attendanceRecordsTable = {}
    /\ serial = [users |-> 0, students |-> 0, teachers |-> 0, class_schedules |-> 0,
                 attendance_records |-> 0]
    /\ last = [op |-> "start", input |-> Null, at |-> 0, out |-> Ok(Null)]
    /\ log = <<>>
    /\ tokens = {}
    /\ scanner = QRScanner

\* The directory as directory management left it at instant 0: class 7A has
\* a schedule, class 7B has none, and one student is enrolled in either.
InitAttendance ==
    /\ now = 0
    /\ usersTable = {}
    /\ \E c \in Classes :
          studentsTable =
            {[id |-> 1, nisn |-> "1001", name |-> "Siswa", class |-> c,
              qr_code |-> generateQrCode("1001", 0), user_id |-> Null,
              is_active |-> TRUE, created_at |-> 0, updated_at |-> 0]}
    /\ teachersTable = {}
    /\ \E d \in CheckInTimes, t \in Tolerances, m \in MinCheckoutTimes :
          classSchedulesTable =
            {[id |-> 1, class_name |-> "7A", check_in_time |-> d,
              late_tolerance_minutes |-> t, min_checkout_time |-> m,
              is_active |-> TRUE, created_at |-> 0, updated_at |-> 0]}
    /\ attendanceRecordsTable = {}
    /\ serial = [users |-> 0, students |-> 1, teachers |-> 0, class_schedules |-> 1,
                 attendance_records |-> 0]
    /\ last = [op |-> "start", input |-> Null, at |-> 0, out |-> Ok(Null)]
    /\ log = <<>>
    /\ tokens = {}
    /\ scanner = QRScanner

\* The users table as user management left it at instant 0: one account.
InitAuth ==
    /\ now = 0
    /\ \E a \in Accounts :
          usersTable =
            {[id |-> 1, username |-> a[1], password_hash |-> hashPassword("rahasia1"),
              role |-> a[2], full_name |-> "Pengguna", email |-> Null,
              is_active |-> TRUE, created_at |-> 0, updated_at |-> 0]}
    /\ studentsTable = {}
    /\ teachersTable = {}
    /\ classSchedulesTable = {}
    /\ attendanceRecordsTable = {}
    /\ serial = [users |-> 1, students |-> 0, teachers |-> 0, class_schedules |-> 0,
                 attendance_records |-> 0]
    /\ last = [op |-> "start", input |-> Null, at |-> 0, out |-> Ok(Null)]
    /\ log = <<>>
    /\ tokens = {}
    /\ scanner = QRScanner

NextAuth ==
    \/ Tick
    \/ AdvanceDay
    \/ DeleteUser
    \/ RemoveUserRow
    \/ Login
    \/ ValidateToken

SpecAuth == InitAuth /\ [][NextAuth]_vars

NextTokens ==
    \/ Tick
    \/ AdvanceDay
    \/ Login
    \/ ValidateToken
    \/ ValidateClientToken

SpecTokens == InitAuth /\ [][NextTokens]_vars

NextAttendance ==
    \/ Tick
    \/ AdvanceDay
    \/ DeleteStudent
    \/ ScanQrCodeForAttendance
    \/ RecordAttendance

SpecAttendance == InitAttendance /\ [][NextAttendance]_vars

NextUsers ==
    \/ Tick
    \/ AdvanceDay
    \/ CreateUser
    \/ DeleteUser

SpecUsers == Init /\ [][NextUsers]_vars

NextDirectory ==
    \/ Tick
    \/ AdvanceDay
    \/ CreateStudent
    \/ DeleteStudent
    \/ CreateClassSchedule

SpecDirectory == Init /\ [][NextDirectory]_vars

NextSchedules ==
    \/ Tick
    \/ CreateClassSchedule
    \/ UpdateClassSchedule
    \/ DeleteClassSchedule

SpecSchedules == Init /\ [][NextSchedules]_vars

NextImports ==
    \/ Tick
    \/ ImportStudentsFromCsv
    \/ ImportTeachersFromCsv

SpecImports == InitAuth /\ [][NextImports]_vars

\* Account management, login and validation within one instant.
NextAccounts ==
    \/ UpdateUser
    \/ DeleteUser
    \/ InitializeDefaultAdmin
    \/ Login
    \/ ValidateToken

SpecAccounts == InitAuth /\ [][NextAccounts]_vars

NextScanner ==
    \/ Tick
    \/ AdvanceDay
    \/ StartScanning
    \/ ScanTimerFires
    \/ ScanRequestResolves
    \/ ScanRequestRejects
    \/ ScanNextStudent

SpecScanner == Init /\ [][NextScanner]_vars

NextStudents ==
    \/ Tick
    \/ CreateStudent
    \/ UpdateStudent
    \/ ImportStudentsFromCsv
    \/ DeleteStudent

SpecStudents == Init /\ [][NextStudents]_vars

\* Every table as its management left it during the first minute: two rows
\* each, all active; the clock has moved on to the second minute.
InitDeletion ==
    /\ now = MsPerMinute
    /\ usersTable =
          {[id |-> i, username |-> IF i = 1 THEN <<97, 100, 105>> ELSE <<233, 34, 92, 46>>,
            password_hash |-> hashPassword("rahasia1"),
            role |-> IF i = 1 THEN "admin" ELSE "teacher",
            full_name |-> "Pengguna", email |-> Null,
            is_active |-> TRUE, created_at |-> 0, updated_at |-> 0] : i \in 1..2}
    /\ studentsTable =
          {[id |-> i, nisn |-> IF i = 1 THEN "1001" ELSE "1002", name |-> "Siswa",
            class |-> "7A",
            qr_code |-> generateQrCode(IF i = 1 THEN "1001" ELSE "1002", 0),
            user_id |-> Null,
            is_active |-> TRUE, created_at |-> 0, updated_at |-> 0] : i \in 1..2}
    /\ teachersTable =
          {[id |-> i, teacher_id |-> IF i = 1 THEN "T01" ELSE "T02", name |-> "Guru",
            homeroom_class |-> Some("7A"), user_id |-> Null,
            is_active |-> TRUE, created_at |-> 0, updated_at |-> 0] : i \in 1..2}
    /\ classSchedulesTable =
          {[id |-> i, class_name |-> IF i = 1 THEN "7A" ELSE "7B",
            check_in_time |-> <<"0", "0", ":", "0", "0">>,
            late_tolerance_minutes |-> 0,
            min_checkout_time |-> <<"0", "0", ":", "0", "2">>,
            is_active |-> TRUE, created_at |-> 0, updated_at |-> 0] : i \in 1..2}
    /\ attendanceRecordsTable = {}
    /\ serial = [users |-> 2, students |-> 2, teachers |-> 2, class_schedules |-> 2,
                 attendance_records |-> 0]
    /\ last = [op |-> "start", input |-> Null, at |-> 0, out |-> Ok(Null)]
    /\ log = <<>>
    /\ tokens = {}
    /\ scanner = QRScanner

NextDeletion ==
    \/ Tick
    \/ DeleteUser
    \/ DeleteStudent
    \/ DeleteTeacher
    \/ DeleteClassSchedule

SpecDeletion == InitDeletion /\ [][NextDeletion]_vars

(***************************************************************************)
(* Claims about attendance.                                                *)
(***************************************************************************)
Digit(c) ==
    CASE c = "0" -> 0 [] c = "1" -> 1 [] c = "2" -> 2 [] c = "3" -> 3
      [] c = "4" -> 4 [] c = "5" -> 5 [] c = "6" -> 6 [] c = "7" -> 7
      [] c = "8" -> 8 [] c = "9" -> 9

\* The minute of the day an HH:MM text names.
TimeOfDay(hhmm) ==
    (Digit(hhmm[1]) * 10 + Digit(hhmm[2])) * 60 + Digit(hhmm[4]) * 10 + Digit(hhmm[5])

IsScan(call) == call.op = "scanQrCodeForAttendance"
IsManual(call) == call.op = "recordAttendance"

\* Today's scans of a code, and today's manual entries for a student.
ScansOf(qrCode) == SelectSeq(log, LAMBDA e : IsScan(e) /\ e.input.qr_code = qrCode)
ManualsOf(studentId) ==
    SelectSeq(log, LAMBDA e : IsManual(e) /\ e.input.student_id = studentId)

\* The ledger's records of a student on a calendar date.
RecordsFor(studentId, date) ==
    {r \in attendanceRecordsTable : r.student_id = studentId /\ DateOf(r.date) = date}

\* A student who is active now was active all day: nothing reactivates.
ScannedToday(s) ==
    /\ s.is_active
    /\ Len(ScansOf(s.qr_code)) >= 1
    /\ Len(ManualsOf(s.id)) = 0

\* The latest call is a scan of an active student, the n-th one today of a day
\* without manual entries for that student.
LastIsScanOf(s, n) ==
    /\ IsScan(last)
    /\ log # <<>> /\ log[Len(log)] = last
    /\ s.qr_code = last.input.qr_code
    /\ s.is_active
    /\ Len(ScansOf(s.qr_code)) = n
    /\ Len(ManualsOf(s.id)) = 0

IsCheckIn(call) ==
    /\ call.out.ok
    /\ call.out.value.check_in_time = Some(call.at)
    /\ call.out.value.check_out_time = Null

IsCheckOut(call) ==
    /\ call.out.ok
    /\ call.out.value.check_out_time = Some(call.at)

\* C1: the first scan of a student on a date creates one record with a
\* check-in timestamp and no check-out; the second scan of that date sets the
\* check-out timestamp on that same record, and no second record appears.
C1_FirstScanChecksInSecondChecksOut ==
    \A s \in studentsTable :
      ScannedToday(s) =>
        LET sc == ScansOf(s.qr_code)
            recs == RecordsFor(s.id, DateOf(now))
        IN  /\ IsCheckIn(sc[1])
            /\ Cardinality(recs) = 1
            /\ \A r \in recs : /\ r.id = sc[1].out.value.id
                               /\ r.check_in_time = Some(sc[1].at)
            /\ Len(sc) = 1 => \A r \in recs : r.check_out_time = Null
            /\ Len(sc) >= 2 =>
                 /\ IsCheckOut(sc[2])
                 /\ sc[2].out.value.id = sc[1].out.value.id
                 /\ \A r \in recs : r.check_out_time = Some(sc[2].at)

\* C2: whatever scans and manual entries have run, the ledger holds at most
\* one record for each (student, calendar date).
C2_OneRecordPerStudentAndDate ==
    \A r1, r2 \in attendanceRecordsTable :
      (r1.student_id = r2.student_id /\ DateOf(r1.date) = DateOf(r2.date)) => r1 = r2

\* Two scans and a manual entry have been answered today for one student.
C2_Witness ==
    \E s \in studentsTable :
      /\ s.is_active
      /\ Len(ScansOf(s.qr_code)) >= 2
      /\ Len(ManualsOf(s.id)) >= 1

\* C3: of two scans of one student answered at the same instant, at most one
\* is handled as a check-in; the ledger ends with a single record for the
\* (student, date), and the other scan is the checkout of that record or
\* fails with Conflict.
C3_SimultaneousScansNotBothCheckIn ==
    \A s \in studentsTable :
      LET sc == ScansOf(s.qr_code)
      IN  (ScannedToday(s) /\ Len(sc) >= 2 /\ sc[1].at = sc[2].at) =>
            /\ ~ (IsCheckIn(sc[1]) /\ IsCheckIn(sc[2]))
            /\ Cardinality(RecordsFor(s.id, DateOf(now))) = 1
            /\ \E k \in {1, 2} :
                 \/ /\ IsCheckOut(sc[k])
                    /\ sc[k].out.value.id = sc[3 - k].out.value.id
                 \/ sc[k].out = Err("Conflict")

\* The status the schedule gives a check-in at minute m of the day.
CheckInStatus(m, schedule) ==
    IF m <= TimeOfDay(schedule.check_in_time) + schedule.late_tolerance_minutes
      THEN "present" ELSE "late"

\* C4: with check-in time d and tolerance t, a check-in scan at a time of day
\* up to d + t is recorded PRESENT and one at d + t + 1 minute or later LATE.
C4_CheckInStatusFollowsSchedule ==
    \A s \in studentsTable :
      (LastIsScanOf(s, 1) /\ getClassScheduleByClassName(s.class) # Null) =>
        /\ last.out.ok
        /\ last.out.value.status =
             CheckInStatus(MinuteOfDay(last.at), getClassScheduleByClassName(s.class)[1])

\* C5: the second scan of the day records the check-out timestamp, and turns
\* the status into EARLY_LEAVE exactly when it comes before the schedule's
\* min_checkout_time; otherwise the status stays as decided at check-in.
C5_CheckoutBeforeMinCheckoutIsEarlyLeave ==
    \A s \in studentsTable :
      (LastIsScanOf(s, 2) /\ getClassScheduleByClassName(s.class) # Null) =>
        LET schedule == getClassScheduleByClassName(s.class)[1]
            first == ScansOf(s.qr_code)[1]
        IN  /\ IsCheckOut(last)
            /\ last.out.value.status =
                 IF MinuteOfDay(last.at) < TimeOfDay(schedule.min_checkout_time)
                   THEN "early_leave"
                   ELSE first.out.value.status

\* C6: a scan for a (student, date) already checked out (the third and every
\* later scan of the day) yields DuplicateScan and leaves the ledger as it was.
C6_ThirdScanIsDuplicateScan ==
    [][ \A s \in studentsTable :
          (log' # log /\ (\E n \in 3..(MaxCalls + 1) : LastIsScanOf(s, n))') =>
            /\ last'.out = Err("DuplicateScan")
            /\ attendanceRecordsTable' = attendanceRecordsTable ]_vars

\* C7: for a student whose class has no schedule, a check-in scan at any time
\* of day yields a record with status PRESENT and the scan instant as check-in
\* time, never an error.
C7_NoScheduleCheckInIsPresent ==
    \A s \in studentsTable :
      (LastIsScanOf(s, 1) /\ getClassScheduleByClassName(s.class) = Null) =>
        /\ last.out.ok
        /\ last.out.value.status = "present"
        /\ last.out.value.check_in_time = Some(last.at)

\* A student of a class without schedule has checked in after midnight's
\* first minute.
C7_Witness ==
    \E s \in studentsTable :
      /\ LastIsScanOf(s, 1)
      /\ getClassScheduleByClassName(s.class) = Null
      /\ MinuteOfDay(last.at) > 0
      /\ last.out.ok

\* C8: a scan whose code resolves to no student fails with NotFound, one whose
\* code resolves to a deactivated student fails with Inactive, and neither
\* touches the ledger.
C8_UnknownOrInactiveStudentIsRejected ==
    [][ (log' # log /\ IsScan(last')) =>
          LET found == getStudentByQrCode(last'.input.qr_code)
          IN  /\ found = Null =>
                   /\ last'.out = Err("NotFound")
                   /\ attendanceRecordsTable' = attendanceRecordsTable
              /\ (found # Null /\ ~ found[1].is_active) =>
                   /\ last'.out = Err("Inactive")
                   /\ attendanceRecordsTable' = attendanceRecordsTable ]_vars

\* C9: a manual entry for a (student, date) that has a record updates that
\* record in place, keeping its id; when there is none it inserts exactly one;
\* either way the record carries the supplied status, timestamps and note.
C9_ManualEntryUpsertsOneRecord ==
    [][ (log' # log /\ IsManual(last')) =>
          LET input == last'.input
              before == RecordsFor(input.student_id, DateOf(input.date))
              after == {r \in attendanceRecordsTable' :
                          /\ r.student_id = input.student_id
                          /\ DateOf(r.date) = DateOf(input.date)}
          IN  /\ Cardinality(after) = 1
              /\ \A r \in after :
                   /\ before # {} => r.id \in {b.id : b \in before}
                   /\ r.status = input.status
                   /\ r.check_in_time = input.check_in_time
                   /\ r.check_out_time = input.check_out_time
                   /\ r.notes = input.notes
              /\ attendanceRecordsTable' \ after = attendanceRecordsTable \ before ]_vars



(***************************************************************************)
(* Claims about authentication                                             *)
(***************************************************************************)
LoginJustSucceeded == last.op = "login" /\ last.out.ok /\ last.at = now

\* C10: validateToken, applied to the token a successful login returned and
\* at the instant of that login, resolves to the identifier and the role of
\* the user the login returned.
C10_TokenOfLoginValidatesToItsUser ==
    LoginJustSucceeded =>
        validateToken(last.out.value.token) =
            Some([userId |-> [t |-> "number", v |-> last.out.value.user.id],
                  role |-> [t |-> "string", v |-> RoleText(last.out.value.user.role)]])

\* A teacher whose name holds a quote, a backslash and a dot has logged in.
C10_Witness ==
    /\ LoginJustSucceeded
    /\ last.out.value.user.role = "teacher"
    /\ \E i \in 1..Len(last.input.username) : last.input.username[i] = 34
    /\ validateToken(last.out.value.token) # Null

\* The user of an issued token has an active row now.
UserIsActive(t) == \E u \in usersTable : u.id = t.user.id /\ u.is_active

\* The instant up to which an issued token is to be accepted.
ExpiryOf(t) == t.at + 86400000

\* C11: once the user of an issued token has been deactivated, or its row
\* removed, validateToken returns null for that token, also while the token's
\* exp has not passed.
C11_TokenOfDeactivatedUserIsRejected ==
    \A t \in tokens : ~ UserIsActive(t) => validateToken(t.token) = Null

\* deleteUser has just deactivated the user of a token that has not expired.
C11_Witness ==
    /\ last.op = "deleteUser" /\ last.out = Ok(TRUE)
    /\ \E t \in tokens :
         /\ t.user.id = last.input
         /\ t.at < now /\ now <= ExpiryOf(t)
         /\ \E u \in usersTable : u.id = t.user.id /\ ~ u.is_active

IsValidation(call) == call.op = "validateToken"

\* The parts of a token around its dots: how many, the first and the last.
PartCount(token) == Cardinality({i \in 1..Len(token) : token[i] = 46}) + 1
FirstPart(token) ==
    SubSeq(token, 1, (CHOOSE i \in 1..(Len(token) + 1) :
                        /\ i = Len(token) + 1 \/ token[i] = 46
                        /\ \A k \in 1..(i - 1) : token[k] # 46) - 1)
LastPart(token) ==
    SubSeq(token, (CHOOSE i \in 0..Len(token) :
                     /\ i = 0 \/ token[i] = 46
                     /\ \A k \in (i + 1)..Len(token) : token[k] # 46) + 1, Len(token))

\* eW91ci1zZWNyZXQta2V5, the base64 of your-secret-key
SecretInBase64 ==
    <<101, 87, 57, 49, 99, 105, 49, 122, 90, 87, 78, 121, 90, 88, 81, 116, 97, 50,
      86, 53>>

\* A text with a character that is neither of the base64 alphabet, nor
\* padding, nor white space.
HasForeignCharacter(text) ==
    \E i \in 1..Len(text) :
        text[i] \notin (65..90) \cup (97..122) \cup (48..57)
                         \cup {43, 47, 61, 9, 10, 12, 13, 32}

\* The payload a token's first part decodes to, where it decodes.
PayloadDecodes(token) ==
    atob(FirstPart(token)).ok /\ JsonParse(atob(FirstPart(token)).value).ok
PayloadOf(token) == JsonParse(atob(FirstPart(token)).value).value
ExpIn(token) == JsonGet(PayloadOf(token), <<101, 120, 112>>)

\* C12: validateToken resolves to null, and does not throw, for the empty
\* token, for one that is not two parts around one dot, for one whose second
\* part is not the base64 of the secret, for one whose payload does not decode,
\* and for one whose exp lies before the instant of the call.
C12_InvalidTokenResolvesToNull ==
    (/\ IsValidation(last)
     /\ \/ last.input = <<>>
        \/ PartCount(last.input) # 2
        \/ LastPart(last.input) # SecretInBase64
        \/ HasForeignCharacter(FirstPart(last.input))
        \/ ~ PayloadDecodes(last.input)
        \/ ExpIn(last.input).t = "number" /\ ExpIn(last.input).v < last.at)
    => last.out = Ok(Null)

\* A token login issued has been presented after its exp, by a user still
\* active.
C12_Witness ==
    /\ IsValidation(last)
    /\ \E t \in tokens :
         /\ t.token = last.input
         /\ last.at > ExpiryOf(t)
         /\ UserIsActive(t)
    /\ last.out = Ok(Null)

\* C13: every token validateToken accepts is one a successful login returned;
\* a token whose payload was altered after issuance (another userId, role or
\* exp) under the second part it was issued with is rejected.
C13_AcceptedTokenWasIssuedByLogin ==
    (IsValidation(last) /\ last.out.value # Null) =>
        last.input \in {t.token : t \in tokens}

\* C14: a token login issued at instant T carries exp = T + 86,400,000 ms, and
\* while its user stays active validateToken accepts it at every instant up to
\* T + 24 hours and rejects it at every later one.
C14_TokenExpiresAfter24Hours ==
    \A t \in tokens :
      /\ ExpIn(t.token) = [t |-> "number", v |-> t.at + 86400000]
      /\ UserIsActive(t) =>
           (validateToken(t.token) # Null <=> now <= t.at + 86400000)

\* Of two tokens of an active user issued a minute apart, the first is a
\* minute past its 24 hours and rejected, the second exactly at its 24 hours
\* and accepted.
C14_Witness ==
    \E t1, t2 \in tokens :
      /\ UserIsActive(t1) /\ UserIsActive(t2)
      /\ now = ExpiryOf(t2) /\ validateToken(t2.token) # Null
      /\ now = ExpiryOf(t1) + 60000 /\ validateToken(t1.token) = Null

\* The instants the clock has shown since a token was issued.
InstantsSince(t) ==
    {i \in {d * MsPerDay + m * MsPerMinute : d \in 0..DateOf(now), m \in 0..MaxMinute} :
       t.at <= i /\ i <= now}

\* C15: for an issued token whose user stays active, acceptance at an instant
\* implies acceptance at every earlier instant since issuance; so once it is
\* rejected as expired, nothing that happens later, a new login of its user
\* included, makes it accepted again.
C15_ValidationIsMonotonicInTime ==
    \A t \in tokens :
      UserIsActive(t) =>
        \A i1, i2 \in InstantsSince(t) :
          (i1 <= i2 /\ validateTokenAt(t.token, i2) # Null) =>
              validateTokenAt(t.token, i1) # Null

\* The user of a token rejected as expired has logged in again, and the token
\* is still rejected.
C15_Witness ==
    /\ last.op = "login" /\ last.out.ok
    /\ \E t \in tokens :
         /\ t.user.id = last.out.value.user.id
         /\ ExpiryOf(t) < last.at
         /\ UserIsActive(t)
         /\ validateToken(t.token) = Null

IsLogin(call) == call.op = "login"

\* The rows of the user name of a login call, and whether the submitted
\* password is the one a row's credential was made from.
UsersNamed(call) == {u \in usersTable : u.username = call.input.username}
PasswordMatches(call, u) == u.password_hash = <<"$argon2id$", call.input.password>>

\* C16: login returns a token exactly when the user name exists, the user is
\* active and the password matches the stored credential; otherwise it fails
\* and issues no token, with 'Invalid username or password' for an unknown
\* name, 'User account is disabled' for an inactive user whatever the
\* password, and 'Invalid username or password' for a wrong password.
C16_LoginSucceedsExactlyOnValidCredentials ==
    IsLogin(last) =>
      LET users == UsersNamed(last)
          valid == \E u \in users : u.is_active /\ PasswordMatches(last, u)
      IN  /\ last.out.ok <=> valid
          /\ last.out.ok =>
               \E t \in tokens : t.token = last.out.value.token /\ t.at = last.at
          /\ ~ last.out.ok => last.out.value = Null
          /\ users = {} => last.out = Err("Invalid username or password")
          /\ (\E u \in users : ~ u.is_active) =>
               last.out = Err("User account is disabled")
          /\ (\E u \in users : u.is_active /\ ~ PasswordMatches(last, u)) =>
               last.out = Err("Invalid username or password")

\* The outcome of the latest login, had it named a user that does not exist.
OutcomeForUnknownName ==
    loginOutcome([username |-> UnknownUsername, password |-> last.input.password],
                 last.at)

\* C17: a login against an existing user name with a password that is not the
\* account's fails with the very error of a login against a user name that
\* does not exist.
C17_FailedLoginHidesWhetherUserExists ==
    (IsLogin(last) /\ \E u \in UsersNamed(last) : ~ PasswordMatches(last, u)) =>
        /\ ~ last.out.ok
        /\ last.out = OutcomeForUnknownName

\* C17 as amended: a login against the user name of an active account with a
\* password that is not the account's fails with the very error of a login
\* against a user name that does not exist.
C17_FailedLoginHidesWhetherActiveUserExists ==
    (IsLogin(last)
       /\ \E u \in UsersNamed(last) : u.is_active /\ ~ PasswordMatches(last, u)) =>
        /\ ~ last.out.ok
        /\ last.out = OutcomeForUnknownName

\* A login with a wrong password against the name of an active account has
\* failed.
C17_Witness ==
    /\ IsLogin(last)
    /\ \E u \in UsersNamed(last) : u.is_active /\ ~ PasswordMatches(last, u)
    /\ ~ last.out.ok

\* The stored state: the five tables and their serials.
StoredState ==
    <<usersTable, studentsTable, teachersTable, classSchedulesTable,
      attendanceRecordsTable, serial>>

\* C18: validateToken is read-only. No call of it, accepted or rejected,
\* changes the users table or any other stored state, and so the answer it
\* gave is the answer the same call gives in the state it left behind.
C18_ValidateTokenIsReadOnly ==
    /\ [][IsValidation(last') /\ last' # last => UNCHANGED <<StoredState, tokens, now>>]_vars
    /\ [](IsValidation(last) => last.out = Ok(validateTokenAt(last.input, last.at)))

\* A token has been accepted by a validation and another text refused by one.
C18_Witness ==
    /\ IsValidation(last)
    /\ last.out.value # Null
    /\ usersTable # {}
    /\ tokens # {}

\* The ids of the rows of a table.
IdsOf(table) == {r.id : r \in table}

\* Table after is table before with the row of the id, if there is one,
\* deactivated: no row leaves, no row comes, the rows of other ids are the
\* same, and the row of the id differs in is_active and updated_at at most.
SoftDeleted(before, after, id) ==
    /\ IdsOf(after) = IdsOf(before)
    /\ Cardinality(after) = Cardinality(before)
    /\ \A r \in before : r.id # id => r \in after
    /\ \A r \in before : r.id = id =>
          \E x \in after :
             /\ x.id = id
             /\ ~ x.is_active
             /\ [x EXCEPT !.is_active = r.is_active, !.updated_at = r.updated_at] = r

DeleteOps == {"deleteUser", "deleteStudent", "deleteTeacher", "deleteClassSchedule"}

\* C19: deletion is soft for users, students, teachers and class schedules.
\* No step takes a row out of a table; a delete of an existing id answers true
\* and changes nothing but is_active (to false) and updated_at of that row; a
\* delete of an id that does not exist answers false and changes nothing.
C19_DeletionIsSoft ==
    [][/\ IdsOf(usersTable) \subseteq IdsOf(usersTable')
       /\ IdsOf(studentsTable) \subseteq IdsOf(studentsTable')
       /\ IdsOf(teachersTable) \subseteq IdsOf(teachersTable')
       /\ IdsOf(classSchedulesTable) \subseteq IdsOf(classSchedulesTable')
       /\ (last'.op \in DeleteOps /\ (last'.op # last.op \/ last' # last)) =>
            LET op == last'.op
                id == last'.input
                before == CASE op = "deleteUser" -> usersTable
                            [] op = "deleteStudent" -> studentsTable
                            [] op = "deleteTeacher" -> teachersTable
                            [] op = "deleteClassSchedule" -> classSchedulesTable
                after == CASE op = "deleteUser" -> usersTable'
                           [] op = "deleteStudent" -> studentsTable'
                           [] op = "deleteTeacher" -> teachersTable'
                           [] op = "deleteClassSchedule" -> classSchedulesTable'
            IN  /\ last'.out = Ok(id \in IdsOf(before))
                /\ SoftDeleted(before, after, id)
                /\ id \notin IdsOf(before) => after = before
                /\ op # "deleteUser" => UNCHANGED usersTable
                /\ op # "deleteStudent" => UNCHANGED studentsTable
                /\ op # "deleteTeacher" => UNCHANGED teachersTable
                /\ op # "deleteClassSchedule" => UNCHANGED classSchedulesTable
                /\ UNCHANGED <<attendanceRecordsTable, serial>>]_vars

\* Each of the four tables holds a deleted row beside an untouched one, and the
\* latest delete asked for a class schedule that does not exist.
C19_Witness ==
    /\ \A table \in {usersTable, studentsTable, teachersTable, classSchedulesTable} :
          /\ \E r \in table : ~ r.is_active /\ r.updated_at > r.created_at
          /\ \E r \in table : r.is_active /\ r.updated_at = r.created_at
    /\ last.op = "deleteClassSchedule"
    /\ last.out = Ok(FALSE)

\* The latest call is a createStudent that this step answered.
CreateStudentAnswered ==
    last'.op = "createStudent" /\ (last'.op # last.op \/ last' # last)

\* C20: whatever createStudent, updateStudent, importStudentsFromCsv and
\* deleteStudent calls were made, no two student rows, active or not, share a
\* NISN or a qr_code; and a createStudent with a NISN that some row already
\* has fails with 'Student with this NISN already exists' and adds no row.
C20_NisnAndQrCodeStayUnique ==
    /\ [](\A a, b \in studentsTable :
            a # b => a.nisn # b.nisn /\ a.qr_code # b.qr_code)
    /\ [][(CreateStudentAnswered
            /\ \E s \in studentsTable : s.nisn = last'.input.nisn) =>
           /\ last'.out = Err("Student with this NISN already exists")
           /\ UNCHANGED studentsTable]_vars

\* Two rows are stored, one of them deleted, one of them given its NISN by an
\* update, and an update that would have given a row the NISN of the other
\* was just refused by the unique constraint.
C20_Witness ==
    /\ Cardinality(studentsTable) = 2
    /\ \E s \in studentsTable : ~ s.is_active
    /\ \E s \in studentsTable : s.qr_code[3] > s.created_at
    /\ last.op = "updateStudent"
    /\ last.input.nisn # Null
    /\ \E s \in studentsTable : s.id # last.input.id /\ s.nisn = last.input.nisn[1]
    /\ last.out = Err("duplicate key value violates unique constraint")

\* The latest call is a createClassSchedule that this step answered.
CreateClassScheduleAnswered ==
    last'.op = "createClassSchedule" /\ (last'.op # last.op \/ last' # last)

\* C21: whatever createClassSchedule, updateClassSchedule and
\* deleteClassSchedule calls were made, there is at most one schedule row per
\* class_name, so getClassScheduleByClassName has at most one candidate; and
\* a createClassSchedule for a class_name that a row, deleted or not, already
\* has fails and adds no row.
C21_OneSchedulePerClassName ==
    /\ [](\A a, b \in classSchedulesTable : a # b => a.class_name # b.class_name)
    /\ [][(CreateClassScheduleAnswered
            /\ \E r \in classSchedulesTable : r.class_name = last'.input.class_name) =>
           /\ ~ last'.out.ok
           /\ UNCHANGED classSchedulesTable]_vars

\* Two schedules are stored, one of them deleted, and an update that would
\* have renamed one to the class of the other was just refused.
C21_Witness ==
    /\ Cardinality(classSchedulesTable) = 2
    /\ \E r \in classSchedulesTable : ~ r.is_active
    /\ last.op = "updateClassSchedule"
    /\ last.input.class_name # Null
    /\ \E r \in classSchedulesTable :
          r.id # last.input.id /\ r.class_name = last.input.class_name[1]
    /\ ~ last.out.ok

\* The latest call deactivated the schedule row r.
JustDeactivated(r) ==
    /\ last.out.ok
    /\ last.at = r.updated_at
    /\ \/ last.op = "deleteClassSchedule" /\ last.input = r.id /\ last.out.value
       \/ /\ last.op = "updateClassSchedule"
          /\ last.input.id = r.id
          /\ last.input.is_active = Some(FALSE)

\* C24: a schedule that was deactivated, by deleteClassSchedule or by
\* updateClassSchedule with is_active = false, is not in the list of
\* getClassSchedules, and getClassScheduleByClassName of its class name still
\* answers that row, with is_active = false, and not that there is none.
C24_DeactivatedScheduleIsHiddenButFound ==
    \A r \in classSchedulesTable :
       ~ r.is_active =>
          /\ r \notin getClassSchedules
          /\ getClassScheduleByClassName(r.class_name) = Some(r)

\* A schedule was just deactivated while another one is still listed.
C24_Witness ==
    /\ \E r \in classSchedulesTable : ~ r.is_active /\ JustDeactivated(r)
    /\ getClassSchedules # {}
    /\ last.op = "updateClassSchedule"

\* The latest call is an updateStudent that this step answered.
UpdateStudentAnswered ==
    last'.op = "updateStudent" /\ (last'.op # last.op \/ last' # last)

\* C22: updateStudent gives the row a new qr_code exactly when the update
\* changes the NISN, and the new code is made from the new NISN; an update
\* without nisn or with the current NISN leaves qr_code as it was, and every
\* field the update does not supply keeps its value.
C22_QrCodeFollowsNisn ==
    [][(UpdateStudentAnswered /\ last'.out.ok) =>
         LET input == last'.input
         IN  \A old \in {s \in studentsTable : s.id = input.id} :
               LET new == last'.out.value
                   nisnChanges == input.nisn # Null /\ input.nisn[1] # old.nisn
               IN  /\ studentsTable' = (studentsTable \ {old}) \cup {new}
                   /\ new.id = old.id
                   /\ (new.qr_code # old.qr_code) <=> nisnChanges
                   /\ nisnChanges => new.nisn = input.nisn[1] /\ new.qr_code[2] = new.nisn
                   /\ input.nisn = Null => new.nisn = old.nisn
                   /\ input.name = Null => new.name = old.name
                   /\ input.class = Null => new.class = old.class
                   /\ input.user_id = Null => new.user_id = old.user_id
                   /\ input.is_active = Null => new.is_active = old.is_active
                   /\ new.created_at = old.created_at]_vars

\* An update has just given a deleted student, created earlier, another NISN
\* and with it another qr_code, and nothing else.
C22_Witness ==
    /\ last.op = "updateStudent"
    /\ last.out.ok
    /\ last.input.nisn # Null
    /\ last.input.is_active = Null
    /\ \E s \in studentsTable :
          /\ s.id = last.input.id
          /\ ~ s.is_active
          /\ s.qr_code = <<"QR", last.input.nisn[1], last.at>>
          /\ s.created_at < last.at

\* C26: an updateStudent that would give a student the NISN a different
\* student holds is refused by the handler's own check, with the error
\* 'Student with this NISN already exists', and both rows stay as they were.
C26_UpdateToTakenNisnIsRefusedByHandler ==
    (/\ last.op = "updateStudent"
     /\ last.input.nisn # Null
     /\ \E s \in studentsTable : s.id = last.input.id
     /\ \E s \in studentsTable : s.id # last.input.id /\ s.nisn = last.input.nisn[1])
    => last.out = Err("Student with this NISN already exists")

ImportOps == {"importStudentsFromCsv", "importTeachersFromCsv"}

\* The latest call is an import that this step answered.
ImportAnswered ==
    last'.op \in ImportOps /\ (last'.op # last.op \/ last' # last)

\* Row i of the students file csvData can be imported into the table: its
\* fields are there and no row of the table has its NISN.
StudentRowIsValid(csvData, i) ==
    /\ csvData[i].nisn # ""
    /\ ~ \E s \in studentsTable : s.nisn = csvData[i].nisn

\* Row i of the teachers file csvData can be imported into the table: its
\* fields are there, no row of the table has its teacher_id and its user_id
\* is absent or the id of a user.
TeacherRowIsValid(csvData, i) ==
    /\ csvData[i].teacher_id # ""
    /\ ~ \E r \in teachersTable : r.teacher_id = csvData[i].teacher_id
    /\ \/ csvData[i].user_id = <<>>
       \/ \E u \in usersTable : csvData[i].user_id = <<48 + u.id>>

\* C23: importStudentsFromCsv and importTeachersFromCsv take every row on
\* its own. The result has total = rows of the file = success + failed and
\* one entry in errors per failed row, each with the number of its row
\* counted from 1; a valid row is in the table afterwards whatever rows
\* failed before it; and the table grows by success rows.
C23_ImportTakesEveryRowOnItsOwn ==
    /\ [](last.op \in ImportOps =>
            LET result == last.out.value
                rows == Len(last.input)
            IN  /\ result.total = rows
                /\ result.success + result.failed = rows
                /\ Len(result.errors) = result.failed
                /\ \A k \in 1..Len(result.errors) :
                      /\ result.errors[k].row \in 1..rows
                      /\ k > 1 => result.errors[k - 1].row < result.errors[k].row)
    /\ [][ImportAnswered =>
            LET csvData == last'.input
                result == last'.out.value
                failedRows == {result.errors[k].row : k \in 1..Len(result.errors)}
            IN  IF last'.op = "importStudentsFromCsv"
                  THEN /\ Cardinality(studentsTable') =
                             Cardinality(studentsTable) + result.success
                       /\ studentsTable \subseteq studentsTable'
                       /\ \A i \in 1..Len(csvData) :
                             StudentRowIsValid(csvData, i) =>
                               /\ \E s \in studentsTable' : s.nisn = csvData[i].nisn
                               /\ (\A j \in 1..(i - 1) : csvData[j].nisn # csvData[i].nisn)
                                    => i \notin failedRows
                  ELSE /\ Cardinality(teachersTable') =
                             Cardinality(teachersTable) + result.success
                       /\ teachersTable \subseteq teachersTable'
                       /\ \A i \in 1..Len(csvData) :
                             TeacherRowIsValid(csvData, i) =>
                               /\ \E r \in teachersTable' :
                                     r.teacher_id = csvData[i].teacher_id
                               /\ (\A j \in 1..(i - 1) :
                                      csvData[j].teacher_id # csvData[i].teacher_id)
                                    => i \notin failedRows]_vars

\* A file of teachers whose first row failed and whose second row was
\* imported, into a table that held a teacher already.
C23_Witness ==
    /\ last.op = "importTeachersFromCsv"
    /\ Len(last.input) = 2
    /\ last.out.value.failed = 1
    /\ last.out.value.success = 1
    /\ last.out.value.errors[1].row = 1
    /\ Cardinality(teachersTable) = 2
    /\ studentsTable # {}

\* The latest call replaced the password of the user u by the password new.
PasswordReplaced(u, new) ==
    /\ last.out.ok
    /\ \/ /\ last.op = "updateUser"
          /\ last.input.id = u.id
          /\ last.input.password = Some(new)
       \/ /\ last.op = "initializeDefaultAdmin"
          /\ u.username = adminUsername
          /\ new = adminPassword

\* C25: after the password of a user was replaced, by updateUser with a
\* password or by initializeDefaultAdmin, and while the user is active, a
\* login with any other password, the previous one included, fails with
\* 'Invalid username or password', and a login with the new one succeeds.
C25_LoginFollowsReplacedPassword ==
    \A u \in usersTable, new \in Passwords :
       (PasswordReplaced(u, new) /\ u.is_active) =>
          /\ loginOutcome([username |-> u.username, password |-> new], now).ok
          /\ \A p \in Passwords \ {new} :
                loginOutcome([username |-> u.username, password |-> p], now)
                  = Err("Invalid username or password")

\* The user login issued the token t to is in the table and deactivated.
Deactivated(t) == \E u \in usersTable : u.id = t.user.id /\ ~ u.is_active

\* The user login issued the token t to is in the table and active, and t has
\* not expired.
Acceptable(t) ==
    /\ \E u \in usersTable : u.id = t.user.id /\ u.is_active
    /\ now <= ExpiryOf(t)

\* The latest call is a validateToken of the issued token t that answered
\* null while the user of t is deactivated.
RejectedAsDeactivated(t) ==
    /\ IsValidation(last)
    /\ last.input = t.token
    /\ last.out.value = Null
    /\ Deactivated(t)

\* This step is a call that switches an account on.
Reactivation ==
    \/ last'.op = "initializeDefaultAdmin"
    \/ last'.op = "updateUser" /\ last'.input.is_active = Some(TRUE)

\* C27: revocation is permanent. Once validateToken has rejected a token
\* because its user was deactivated, no updateUser, deleteUser or
\* initializeDefaultAdmin call brings the token back to where validateToken
\* accepts it.
C27_RevocationIsPermanent ==
    [][\A t \in tokens : RejectedAsDeactivated(t) => ~ Acceptable(t)']_vars

\* C27, amended: revocation lasts as long as the deactivation. validateToken
\* accepts an issued token exactly while its user is active and it has not
\* expired; while the user is deactivated every validateToken of the token
\* answers null; and a token of a deactivated user comes back only by a call
\* that switches the account on again.
C27_RevocationLastsWhileDeactivated ==
    /\ [](\A t \in tokens :
            /\ (validateToken(t.token) # Null) <=> Acceptable(t)
            /\ (IsValidation(last) /\ last.input = t.token /\ Deactivated(t))
                 => last.out.value = Null)
    /\ [][\A t \in tokens : (Deactivated(t) /\ Acceptable(t)') => Reactivation]_vars

\* validateToken has just rejected a token whose user is deactivated.
C27_Witness == \E t \in tokens : RejectedAsDeactivated(t)

\* C28: whenever validateToken accepts a token, the role it answers is the
\* role the users table holds now for the user it answers, also after
\* updateUser has changed that role since login issued the token.
C28_AcceptedRoleIsCurrentRole ==
    (IsValidation(last) /\ last.out.value # Null) =>
       \E u \in usersTable :
          /\ last.out.value[1].userId.v = u.id
          /\ last.out.value[1].role.v = RoleText(u.role)

\* What a caller can present as a token: a token login issued, a text made
\* from one, a malformed text, or a token made outside login for a user of
\* the table.
ClientTokens ==
    {t.token : t \in tokens}
      \cup UNION {TokensMadeFrom(t) : t \in tokens}
      \cup MalformedTokens
      \cup {craftToken(tokenPayload(u, now)) : u \in usersTable}

\* This step answered a call of a route other than login.
RouteAnswered ==
    /\ last'.op \notin {"start", "login", "validateToken", "db.delete(usersTable)"}
    /\ (last'.op # last.op \/ last' # last)

\* C29: every route other than login and healthcheck runs its handler only
\* for a caller presenting a token that validateToken accepts: when such a
\* route is answered, there is a token the caller can have presented that
\* validateToken accepts.
C29_RoutesRunOnlyForValidToken ==
    [][RouteAnswered => \E token \in ClientTokens : validateToken(token) # Null]_vars

\* C30: the QRScanner component never shows the error alert and the success
\* alert together: whatever scans succeeded or failed, also scans started
\* while the request of an earlier one was under way, at most one of error
\* and success is set.
C30_ErrorAndSuccessNeverTogether ==
    ~ (scanner.error # Null /\ scanner.success # Null)

====
